---- MODULE Spec2Model ----
(***************************************************************************)
(* A model of the DNS resolver's cache (src/src/cache/mod.rs) and of its   *)
(* wire codec (src/src/proto, src/src/label.rs, src/src/packet.rs).        *)
(*                                                                         *)
(* Part I, the cache: three evmap maps (record table, by-name index,       *)
(* by-(name,type) index) written by one operator task that consumes a      *)
(* bounded mpsc channel of Insert / Publish commands, and read by any      *)
(* number of EVCache handles.                                              *)
(***************************************************************************)
EXTENDS Integers, Sequences, FiniteSets, Bags, TLC

\* ------------------------------------------------------------------ bounds
MaxHandles == 2
MaxCalls == 4

\* mpsc::channel(200)
ChannelCapacity == 200

\* ------------------------------------------------------------------ data
\* Type::A and Type::TXT, and QType::ALL
TypeA == 1
TypeTXT == 16
QTypeALL == 255

Names == {"a", "b"}
Types == {TypeA, TypeTXT}

\* The (DomainName, ResourceData) pairs the clients insert.  Two of them
\* share the cache key and differ in their ttl only.
Records ==
    { [name |-> "a", typ |-> TypeA,   data |-> 1, ttl |-> 1],
      [name |-> "a", typ |-> TypeA,   data |-> 1, ttl |-> 2],
      [name |-> "b", typ |-> TypeTXT, data |-> 2, ttl |-> 1] }

NoRec == [name |-> "", typ |-> 0, data |-> 0, ttl |-> 0]

\* ResourceData: what the record table stores and get() returns
ResourceData(r) == [typ |-> r.typ, data |-> r.data, ttl |-> r.ttl]

\* CacheKey(Arc<(DomainName, Type, Arc<[u8]>)>)
CacheKey(r) == <<r.name, r.typ, r.data>>

\* Option<T>
None == [some |-> FALSE, v |-> 0]
Some(x) == [some |-> TRUE, v |-> x]

\* GetKey(DomainName, Option<Type>)
GetKey(n, t) == [name |-> n, typ |-> t]

\* into_type: QType::ALL is "no type", any other QType is the Type of its number
into_type(q) == IF q = QTypeALL THEN None ELSE Some(q)

GetKeys == { GetKey(n, into_type(q)) : n \in Names, q \in Types \cup {QTypeALL} }

VARIABLES
    handles,      \* number of live EVCache handles (each holds a Sender)
    chainSt,      \* bulk() pipelines: "unused", "open" (holds a Sender), "closed"
    chan,         \* the control channel: commands in flight
    wpc,          \* the operator: "recv", "refresh_name", "refresh_typed", "done", "gone"
    table,        \* evmap CacheKey -> ResourceData
    nameIdx,      \* evmap DomainName -> bag of CacheKey
    typedIdx,     \* evmap (DomainName, Type) -> bag of CacheKey
    log,          \* the commands the operator has fully processed, in order
    lastCall,     \* the last insert()/publish() call: its number and its result
    \* Part II, the codec
    buf,            \* the byte buffer handed to the parser
    off,            \* the offset parsing starts at
    overflowChecks, \* the build: debug (arithmetic overflow panics) or release
    parser,         \* the parser that was run
    ppc,            \* "idle", "walk" (inside DomainName::parse's loop), "done"
    itLabel,        \* LabelIter.label
    itYielded,      \* LabelIter.yielded_self
    pointer_mask,   \* LabelIter.pointer_mask
    nlen,           \* DomainName::parse's count of data labels
    followed,       \* the pointer targets the walk has followed so far
    owned,          \* the label lengths of the owned name DomainName::from_str built
    pres            \* the parser's result

VARIABLES
    \* Part III, the header codec
    hpc,            \* "idle", "header", "octets", "written", "read", "parsed", "rejected", "rewritten", "viewed"
    header0,        \* the Header the run started from
    octets0,        \* the 12 octets the run started from
    hdr,            \* the Header at hand
    octets,         \* the 12 octets at hand
    hparser,        \* the parser applied to the octets
    hres            \* its result

VARIABLES
    \* Part IV, the packet builder
    bpc,            \* "idle", "builder", "built"
    builder,        \* the DNSPacketBuilder: header, questions, answers, compress
    out_len,        \* out_buffer.len() of the build
    built           \* what build_into returned and wrote

VARIABLES
    \* Part V, ArrayBuffer
    apc,            \* "idle", "live", "panicked"
    abuf,           \* the ArrayBuffer: read_cursor, len, max_len, and cap and null of its Data
    aop             \* the last operation on it, its argument, the buffer before it and whether it returned

VARIABLES
    \* Part VI, the server
    spc,            \* "idle", "serving", "stopped", "crashed"
    sbuf2,          \* buf[0..2], the receive buffer's first two octets
    sdatagram,      \* the datagram of the last turn
    sevent,         \* what the last turn did
    sreply,         \* the octets it sent
    served,         \* the turns taken
    \* Part VII, the packet view
    pk,             \* the packet being read, its parse and its iterator
    \* Part VIII, the UDP request pipeline
    pipe            \* the listener, its work channel and the worker

cacheVars == <<handles, chainSt, chan, wpc, table, nameIdx, typedIdx, log, lastCall>>

parseVars == <<buf, off, overflowChecks, parser, ppc, itLabel, itYielded, pointer_mask, nlen, followed, owned, pres>>

headerVars == <<hpc, header0, octets0, hdr, octets, hparser, hres>>

buildVars == <<bpc, builder, out_len, built>>

bufferVars == <<apc, abuf, aop>>

serverVars == <<spc, sbuf2, sdatagram, sevent, sreply, served>>

packetVars == <<pk>>

pipeVars == <<pipe>>

vars == <<cacheVars, parseVars, headerVars, buildVars, bufferVars, serverVars, packetVars, pipeVars>>

\* what the actions of one part leave alone
notCacheVars == <<parseVars, headerVars, buildVars, bufferVars, serverVars, packetVars, pipeVars>>
notParseVars == <<cacheVars, headerVars, buildVars, bufferVars, serverVars, packetVars, pipeVars>>
notHeaderVars == <<cacheVars, parseVars, buildVars, bufferVars, serverVars, packetVars, pipeVars>>
notBuildVars == <<cacheVars, parseVars, headerVars, bufferVars, serverVars, packetVars, pipeVars>>
notBufferVars == <<cacheVars, parseVars, headerVars, buildVars, serverVars, packetVars, pipeVars>>
notServerVars == <<cacheVars, parseVars, headerVars, buildVars, bufferVars, packetVars, pipeVars>>
notPacketVars == <<cacheVars, parseVars, headerVars, buildVars, bufferVars, serverVars, pipeVars>>
notPipeVars == <<cacheVars, parseVars, headerVars, buildVars, bufferVars, serverVars, packetVars>>

\* the bulk() pipelines that are followed
Chains == {1, 2}

\* ------------------------------------------------------------------ evmap
\* One evmap: the writer's side w, the readers' side r, whether it was ever
\* refreshed, and whether its WriteHandle was dropped.  A value is a bag.
EvNew == [w |-> <<>>, r |-> <<>>, ready |-> FALSE, destroyed |-> FALSE]

\* WriteHandle::insert: add the value to the key's value-bag (writer side only)
EvInsert(m, k, v) ==
    [m EXCEPT !.w = IF k \in DOMAIN m.w
                      THEN [m.w EXCEPT ![k] = @ (+) SetToBag({v})]
                      ELSE (k :> SetToBag({v})) @@ m.w]

\* WriteHandle::update: replace the key's value-bag by the one value
EvUpdate(m, k, v) == [m EXCEPT !.w = (k :> SetToBag({v})) @@ m.w]

\* a refresh that swaps the maps without applying the pending operations
EvRefreshStale(m) == [m EXCEPT !.ready = TRUE]

\* WriteHandle::refresh: expose the writer's side to the readers
EvRefresh(m) == [m EXCEPT !.r = m.w, !.ready = TRUE]

\* Drop for WriteHandle: the readers' side is taken away
EvDestroy(m) == [m EXCEPT !.destroyed = TRUE]

\* ReadHandle::get: None before the first refresh, after destruction, or for
\* a missing key
EvGet(m, k) ==
    IF m.destroyed \/ ~m.ready \/ k \notin DOMAIN m.r THEN None ELSE Some(m.r[k])

\* ReadHandle::get_one
EvGetOne(m, k) ==
    LET b == EvGet(m, k)
    IN  IF b.some THEN Some(CHOOSE v \in BagToSet(b.v) : TRUE) ELSE None

RECURSIVE SumOver(_, _)
SumOver(S, f) ==
    IF S = {} THEN 0
    ELSE LET x == CHOOSE y \in S : TRUE IN f[x] + SumOver(S \ {x}, f)

\* EVCache::get with the three read handles given
GetFrom(tbl, nidx, tidx, key) ==
    LET keys == IF key.typ.some THEN EvGet(tidx, <<key.name, key.typ.v>>)
                ELSE EvGet(nidx, key.name)
    IN  IF ~keys.some THEN None
        ELSE LET ks   == {k \in BagToSet(keys.v) : EvGetOne(tbl, k).some}
                 vals == {EvGetOne(tbl, k).v : k \in ks}
             IN  Some([v \in vals |->
                        SumOver({k \in ks : EvGetOne(tbl, k).v = v}, keys.v)])

\* EVCache::get, read at this instant
Get(key) == GetFrom(table, nameIdx, typedIdx, key)

\* ------------------------------------------------------------------ clients
\* an operator that keeps a Sender of its own channel
SendersWithOperatorClone ==
    handles + Cardinality({c \in Chains : chainSt[c] = "open"}) + 1

Senders == handles + Cardinality({c \in Chains : chainSt[c] = "open"})

ReceiverAlive == wpc \notin {"done", "gone"}

Msg(op, r, c) == [op |-> op, rec |-> r, chain |-> c]

\* Clone for EVCache
CacheClone ==
    /\ handles > 0
    /\ handles < MaxHandles
    /\ handles' = handles + 1
    /\ UNCHANGED <<chainSt, chan, wpc, table, nameIdx, typedIdx, log, lastCall, notCacheVars>>

\* an EVCache handle is dropped
CacheDrop ==
    /\ handles > 0
    /\ handles' = handles - 1
    /\ UNCHANGED <<chainSt, chan, wpc, table, nameIdx, typedIdx, log, lastCall, notCacheVars>>

\* EVCache::bulk
Bulk(c) ==
    /\ handles > 0
    /\ chainSt[c] = "unused"
    /\ \A d \in Chains : d < c => chainSt[d] # "unused"
    /\ chainSt' = [chainSt EXCEPT ![c] = "open"]
    /\ UNCHANGED <<handles, chan, wpc, table, nameIdx, typedIdx, log, lastCall, notCacheVars>>

\* a send that does not notice the closed channel
SendResultIgnoresClose == "Ok"

\* mpsc::Sender::send as the pipeline uses it: Err when the receiver is
\* gone, otherwise the message is queued once there is room
SendResult == IF ReceiverAlive THEN "Ok" ELSE "CacheOperatorGone"

\* EVCacheBulk::insert
BulkInsert(c, r) ==
    /\ chainSt[c] = "open"
    /\ lastCall.n < MaxCalls
    /\ ReceiverAlive => Len(chan) < ChannelCapacity
    /\ lastCall' = [n |-> lastCall.n + 1, res |-> SendResult]
    /\ IF ReceiverAlive
         THEN /\ chan' = Append(chan, Msg("Insert", r, c))
              /\ UNCHANGED chainSt
         ELSE /\ chainSt' = [chainSt EXCEPT ![c] = "closed"]
              /\ UNCHANGED chan
    /\ UNCHANGED <<handles, wpc, table, nameIdx, typedIdx, log, notCacheVars>>

\* EVCacheBulk::publish
BulkPublish(c) ==
    /\ chainSt[c] = "open"
    /\ lastCall.n < MaxCalls
    /\ ReceiverAlive => Len(chan) < ChannelCapacity
    /\ lastCall' = [n |-> lastCall.n + 1, res |-> SendResult]
    /\ chan' = IF ReceiverAlive THEN Append(chan, Msg("Publish", NoRec, c)) ELSE chan
    /\ chainSt' = [chainSt EXCEPT ![c] = "closed"]
    /\ UNCHANGED <<handles, wpc, table, nameIdx, typedIdx, log, notCacheVars>>

\* an EVCacheBulk is dropped without publish()
BulkDrop(c) ==
    /\ chainSt[c] = "open"
    /\ chainSt' = [chainSt EXCEPT ![c] = "closed"]
    /\ UNCHANGED <<handles, chan, wpc, table, nameIdx, typedIdx, log, lastCall, notCacheVars>>

\* ------------------------------------------------------------------ operator
\* a by-(name,type) index that files every record under Type::A
TypedIndexInsertWrongType(m, r) == EvInsert(m, <<r.name, TypeA>>, CacheKey(r))

\* the by-(name,type) index entry of an Insert
TypedIndexInsert(m, r) == EvInsert(m, <<r.name, r.typ>>, CacheKey(r))

\* the by-name index entry of an Insert
NameIndexInsert(m, r) == EvInsert(m, r.name, CacheKey(r))

\* the record table entry of an Insert
TableUpdate(m, r) == EvUpdate(m, CacheKey(r), ResourceData(r))

\* listen, the Insert arm
WriterInsert ==
    /\ wpc = "recv"
    /\ chan # <<>>
    /\ Head(chan).op = "Insert"
    /\ typedIdx' = TypedIndexInsert(typedIdx, Head(chan).rec)
    /\ nameIdx' = NameIndexInsert(nameIdx, Head(chan).rec)
    /\ table' = TableUpdate(table, Head(chan).rec)
    /\ chan' = Tail(chan)
    /\ log' = Append(log, Head(chan))
    /\ UNCHANGED <<handles, chainSt, wpc, lastCall, notCacheVars>>

\* a Publish arm that refreshes the by-name index ahead of the record table
WriterPublishIndexFirst ==
    /\ wpc = "recv"
    /\ chan # <<>>
    /\ Head(chan).op = "Publish"
    /\ nameIdx' = EvRefresh(nameIdx)
    /\ wpc' = "refresh_name"
    /\ UNCHANGED <<handles, chainSt, chan, table, typedIdx, log, lastCall, notCacheVars>>

\* listen, the Publish arm: the three refreshes are three steps, readers on
\* other threads run between them
WriterPublish ==
    /\ wpc = "recv"
    /\ chan # <<>>
    /\ Head(chan).op = "Publish"
    /\ table' = EvRefresh(table)
    /\ wpc' = "refresh_name"
    /\ UNCHANGED <<handles, chainSt, chan, nameIdx, typedIdx, log, lastCall, notCacheVars>>

WriterRefreshName ==
    /\ wpc = "refresh_name"
    /\ nameIdx' = EvRefresh(nameIdx)
    /\ wpc' = "refresh_typed"
    /\ UNCHANGED <<handles, chainSt, chan, table, typedIdx, log, lastCall, notCacheVars>>

WriterRefreshTyped ==
    /\ wpc = "refresh_typed"
    /\ typedIdx' = EvRefresh(typedIdx)
    /\ wpc' = "recv"
    /\ chan' = Tail(chan)
    /\ log' = Append(log, Head(chan))
    /\ UNCHANGED <<handles, chainSt, table, nameIdx, lastCall, notCacheVars>>

\* the operator and its three write handles are dropped
DropOperator(to) ==
    /\ wpc' = to
    /\ table' = EvDestroy(table)
    /\ nameIdx' = EvDestroy(nameIdx)
    /\ typedIdx' = EvDestroy(typedIdx)
    /\ chan' = <<>>

\* listen: recv() returns None once the channel is empty and every Sender is
\* gone; the loop ends
WriterExit ==
    /\ wpc = "recv"
    /\ chan = <<>>
    /\ Senders = 0
    /\ DropOperator("done")
    /\ UNCHANGED <<handles, chainSt, log, lastCall, notCacheVars>>

\* the operator task ends while Senders are alive (it is aborted, or the
\* runtime shuts down)
WriterAbort ==
    /\ ReceiverAlive
    /\ Senders > 0
    /\ DropOperator("gone")
    /\ UNCHANGED <<handles, chainSt, log, lastCall, notCacheVars>>

\* cache::new
CacheInit ==
    /\ handles = 1
    /\ chainSt = [c \in Chains |-> "unused"]
    /\ chan = <<>>
    /\ wpc = "recv"
    /\ table = EvNew
    /\ nameIdx = EvNew
    /\ typedIdx = EvNew
    /\ log = <<>>
    /\ lastCall = [n |-> 0, res |-> "none"]

ClientNext ==
    \/ CacheClone
    \/ CacheDrop
    \/ \E c \in Chains : Bulk(c)
    \/ \E c \in Chains, r \in Records : BulkInsert(c, r)
    \/ \E c \in Chains : BulkPublish(c)
    \/ \E c \in Chains : BulkDrop(c)

WriterNext ==
    \/ WriterInsert
    \/ WriterPublish
    \/ WriterRefreshName
    \/ WriterRefreshTyped
    \/ WriterExit

\* ==================================================================
\* Part II, the codec: the parsers applied to one byte buffer.
\* ==================================================================

\* ------------------------------------------------------------------ bounds
\* octets that follow the chosen message prefix
MaxBodyLen == 3
\* DomainName::parse's label count is followed up to this value
MaxLabels == 3

\* Header::SIZE
HeaderSize == 12
\* MAX_LABEL_LENGTH (proto/label.rs)
MAX_LABEL_LENGTH == 63
\* MAX_LABEL_SIZE (label.rs, question.rs)
MAX_LABEL_SIZE == 63
\* MAX_NAME_SIZE (question.rs)
MAX_NAME_SIZE == 255

\* The octets buffers are made of: the end of a name, label lengths 1 and 2,
\* 12 and 16 (pointer targets behind a header), a length with top bits 01,
\* the letter 'a', and the pointer tag 0xC0.
Bytes == {0, 1, 2, 12, 16, 64, 97, 192}

\* What a datagram starts with: nothing, the first 8 octets of a header, a
\* query header with no question, one whose Z bits are set, and a query
\* header with one question whose name is a pointer to offset 16.
Hdr8 == <<4, 210, 1, 0, 0, 1, 0, 0>>
HdrQuery == <<4, 210, 1, 0, 0, 0, 0, 0, 0, 0, 0, 0>>
HdrReserved == <<4, 210, 1, 14, 0, 0, 0, 0, 0, 0, 0, 0>>
HdrQuestion == <<4, 210, 1, 0, 0, 1, 0, 0, 0, 0, 0, 0, 192, 16, 0, 1>>
Prefixes == {<<>>, Hdr8, HdrQuery, HdrReserved, HdrQuestion}

BodiesUpTo(n) == UNION {[1..k -> Bytes] : k \in 0..n}
Buffers == {p \o b : p \in Prefixes, b \in BodiesUpTo(MaxBodyLen)}
\* where a parser is started: the start of the buffer, the octets next to
\* it, and the octet behind a header
Offsets(b) == {o \in {0, 1, 2, HeaderSize} : o <= Len(b)}

\* bytes[i] of a Rust slice
At(bytes, i) == bytes[i + 1]
\* &bytes[from..to]
Slice(bytes, from, to) == SubSeq(bytes, from + 1, to)
\* u16::from_be_bytes([hi, lo])
U16(hi, lo) == hi * 256 + lo
\* n octets c
Repeat(c, n) == [i \in 1..n |-> c]

\* a parser's result: Ok, a structured error, or a panic
Res(kind, err, lkind, o, l) == [kind |-> kind, err |-> err, lkind |-> lkind, offset |-> o, len |-> l]
NoRes == Res("none", "", "", 0, 0)
Ok(lkind, o, l) == Res("Ok", "", lkind, o, l)
Err(e) == Res("Err", e, "", 0, 0)
Panic(why) == Res("Panic", why, "", 0, 0)

\* ------------------------------------------------------------------ labels
\* the label alphabet: letters anywhere, digits not first, '-' neither first
\* nor last
LabelCharOk(c, cursor, len) ==
    \/ c \in 65..90 \cup 97..122
    \/ c \in 48..57 /\ cursor # 0
    \/ c = 45 /\ cursor # 0 /\ cursor + 1 # len

\* proto::label::Label::parse(bytes, offset)
LabelParse(bytes, offset) ==
    IF offset >= Len(bytes) THEN Err("BufferTooSmall")
    ELSE LET len == At(bytes, offset) IN
      IF len = 0 THEN Ok("None", 0, 0)
      ELSE IF (len \div 64) * 64 = 192 THEN
        IF offset + 1 >= Len(bytes) THEN Err("BufferTooSmall")
        ELSE LET target == U16(len % 64, At(bytes, offset + 1)) IN
             IF target >= Len(bytes) THEN Err("IllegalLabelPointer")
             ELSE Ok("Pointer", target, 0)
      ELSE IF offset + 1 + len > Len(bytes) THEN Err("BufferTooSmall")
      ELSE IF len > MAX_LABEL_LENGTH THEN Err("LabelLengthTooLong")
      ELSE IF (len \div 64) * 64 # 0 THEN Err("InvalidLengthField")
      ELSE IF \E cursor \in 0..(len - 1) : ~LabelCharOk(At(bytes, offset + 1 + cursor), cursor, len)
           THEN Err("IllegalLabelChar")
      ELSE Ok("Data", offset, len)

\* label::Label::try_parse(buffer, offset); len holds the octets consumed
LabelTryParse(buffer, offset) ==
    IF offset >= Len(buffer) THEN Err("NoLengthField")
    ELSE LET len == At(buffer, offset) IN
      IF len = 0 THEN Ok("End", 0, 1)
      ELSE IF offset + 1 + len > Len(buffer) THEN Err("BufferTooSmall")
      ELSE IF (len \div 64) * 64 = 192 THEN
        IF offset + 1 >= Len(buffer) THEN Err("BufferTooSmall")
        ELSE Ok("Pointer", (len % 64) * 256 + At(buffer, offset + 1), 2)
      ELSE IF len > MAX_LABEL_SIZE THEN Err("LabelTooLarge")
      ELSE IF \E i \in 0..((len % 64) - 1) : ~LabelCharOk(At(buffer, offset + 1 + i), i, len % 64)
           THEN Err("IllegalLabelChar")
      ELSE Ok("Label", offset, 1 + (len % 64))

\* bit k of a u16
Bit(mask, k) == (mask \div (2 ^ k)) % 2 = 1

\* LabelIter::next past the first item: the label behind `label`.  The
\* shift 1u16 << offset overflows for offset >= 16: a panic where overflow
\* is checked, a shift by offset % 16 where it is not.
LabelIterNext(bytes, label, mask, checks) ==
    IF label.lkind = "Data" THEN LabelParse(bytes, label.offset + 1 + label.len)
    ELSE IF label.offset >= 16 /\ checks THEN Panic("shift overflow")
    ELSE IF Bit(mask, label.offset % 16) THEN Err("IllegalLabelPointer")
    ELSE LabelParse(bytes, label.offset)

\* ------------------------------------------------------------------ headers
\* <Header as TryFrom<&[u8]>>::try_from(value): every index is unguarded
HeaderTryFrom(value) ==
    IF Len(value) < 4 THEN Panic("index out of bounds")
    ELSE IF (At(value, 3) \div 2) % 8 # 0 THEN Err("UseOfReservedBits")
    ELSE IF (At(value, 2) \div 8) % 16 > 2 THEN Err("UnknownOpcode")
    ELSE IF At(value, 3) % 16 > 5 THEN Err("UnknownResponseCode")
    ELSE IF Len(value) < HeaderSize THEN Panic("index out of bounds")
    ELSE Ok("Header", U16(At(value, 4), At(value, 5)), 0)

\* GenericHeaderView::<Valid>::new(buffer)
HeaderViewNew(buffer) ==
    IF Len(buffer) = 0 THEN Ok("None", 0, 0)
    ELSE IF Len(buffer) # HeaderSize THEN Err("IncorrectHeaderSize")
    ELSE IF (At(buffer, 2) \div 8) % 16 > 2 THEN Err("UnknownOpcode")
    ELSE IF At(buffer, 3) % 16 > 5 THEN Err("UnknownResponseCode")
    ELSE Ok("Header", 0, 0)

\* <GenericHeaderView<Valid> as FromPacketBytes>::parse(bytes, offset):
\* bytes.len() - offset underflows for an offset behind the buffer, and the
\* slice that follows is out of range then
HeaderViewParse(bytes, offset) ==
    IF offset > Len(bytes) THEN Panic("offset behind the buffer")
    ELSE IF Len(bytes) - offset < HeaderSize THEN Err("IncorrectHeaderSize")
    ELSE HeaderViewNew(Slice(bytes, offset, offset + HeaderSize))

\* ------------------------------------------------------------------ questions
\* QType::try_from and QClass::try_from accept these numbers
QTypeKnown(n) == n \in 1..16 \cup 252..255
QClassKnown(n) == n \in 1..4 \cup {255}

\* std::str::from_utf8 on octets of Bytes: those below 0x80 are ASCII, and
\* 0xC0 occurs in no well-formed UTF-8
Utf8Ok(s) == \A i \in 1..Len(s) : s[i] < 128

\* question::Question::try_parse(buffer), its loop over the labels: the
\* cursor behind the name, or an error
RECURSIVE QuestionName(_, _, _)
QuestionName(buffer, cursor, len) ==
    IF cursor >= Len(buffer) THEN Err("EOF")
    ELSE LET part_len == At(buffer, cursor) IN
      IF part_len = 0 THEN Ok("Name", cursor + 1, len)
      ELSE IF len + part_len > MAX_NAME_SIZE THEN Err("NameTooLarge")
      ELSE IF part_len < MAX_LABEL_SIZE THEN QuestionName(buffer, cursor + part_len + 1, len + part_len)
      ELSE Err("LabelTooLarge")

\* question::Question::try_parse(buffer); len holds the octets consumed
QuestionTryParse(buffer) ==
    LET name == QuestionName(buffer, 0, 0) IN
    IF name.kind # "Ok" THEN name
    ELSE LET cursor == name.offset IN
      IF cursor + 4 > Len(buffer) THEN Err("EOF")
      ELSE IF ~QTypeKnown(U16(At(buffer, cursor), At(buffer, cursor + 1))) THEN Err("UnknownQType")
      ELSE IF ~QClassKnown(U16(At(buffer, cursor + 2), At(buffer, cursor + 3))) THEN Err("UnkonwnQClass")
      ELSE IF ~Utf8Ok(Slice(buffer, 0, cursor)) THEN Err("IllegalName")
      ELSE Ok("Question", 0, cursor + 4)

\* DNSPacket::try_parse, its loop over header.question_entries questions
RECURSIVE Questions(_, _)
Questions(sections, n) ==
    IF n = 0 THEN Ok("Packet", 0, 0)
    ELSE LET q == QuestionTryParse(sections) IN
      IF q.kind # "Ok" THEN q
      ELSE Questions(Slice(sections, q.len, Len(sections)), n - 1)

\* DNSPacket::try_parse(buffer): &buffer[..Header::SIZE] is taken unguarded
PacketTryParse(buffer) ==
    IF Len(buffer) < HeaderSize THEN Panic("slice out of range")
    ELSE LET header == HeaderTryFrom(Slice(buffer, 0, HeaderSize)) IN
      IF header.kind # "Ok" THEN header
      ELSE Questions(Slice(buffer, HeaderSize, Len(buffer)), header.offset)

\* DNSPacket::try_parse_header_only(buffer)
PacketTryParseHeaderOnly(buffer) ==
    LET header == HeaderTryFrom(buffer) IN
    IF header.kind = "Panic" THEN header
    ELSE IF header.kind = "Ok" THEN Ok("Some", 0, 0)
    ELSE IF Len(buffer) >= 2 THEN Ok("Some", 0, 0)
    ELSE Ok("None", 0, 0)

\* ------------------------------------------------------------------ names
\* types::DomainName::try_from(value): the label alphabet here has '.' where
\* the other parsers have '-', and i is the index into value
NameCharOk(c, i, last_index) ==
    \/ c \in 65..90 \cup 97..122
    \/ c \in 48..57 /\ i # 0
    \/ c = 46 /\ i # 0 /\ i # last_index

\* types::DomainName::try_from(value), its loop; len holds the label octets
\* counted, offset the number of labels
RECURSIVE DomainNameLoop(_, _, _, _)
DomainNameLoop(value, cursor, len, parts) ==
    IF cursor >= Len(value) THEN Err("EOF")
    ELSE LET part_len == At(value, cursor) IN
      IF part_len = 0 THEN Ok("DomainName", parts, len)
      ELSE IF len + part_len > MAX_NAME_SIZE THEN Err("NameTooLarge")
      ELSE IF cursor + 1 + part_len > Len(value) THEN Err("EOF")
      ELSE IF ~(part_len < MAX_LABEL_SIZE) THEN Err("LabelTooLarge")
      ELSE IF \E i \in (cursor + 1)..(cursor + part_len) : ~NameCharOk(At(value, i), i, cursor + part_len)
           THEN Err("IllegalLabel")
      ELSE DomainNameLoop(value, cursor + part_len + 1, len + part_len, parts + 1)

\* <types::DomainName as TryFrom<&[u8]>>::try_from(value)
DomainNameTryFrom(value) ==
    IF Len(value) = 0 THEN Err("Empty") ELSE DomainNameLoop(value, 0, 0, 0)

\* ------------------------------------------------------------------ names from text
\* label::Label::valudate_label(label_bytes)
valudate_label(label_bytes) ==
    \A i \in 0..(Len(label_bytes) - 1) : LabelCharOk(At(label_bytes, i), i, Len(label_bytes))

\* label::Label::from_str(str): the text up to the first '.'; len holds the
\* label's length
LabelFromStr(bytes) ==
    IF Len(bytes) = 0 THEN Ok("End", 0, 0)
    ELSE LET stops == {i \in 0..(MAX_LABEL_SIZE - 1) : i >= Len(bytes) \/ At(bytes, i) = 46} IN
      IF stops = {} THEN Err("LabelTooLarge")
      ELSE LET i == CHOOSE j \in stops : \A k \in stops : j <= k IN
           IF valudate_label(Slice(bytes, 0, i)) THEN Ok("Label", 0, i) ELSE Err("IllegalLabelChar")

\* domain_name::DomainName::from_str(s), its loop taken from one '.' to the
\* next, and the piece behind the last '.': the lengths of the labels pushed,
\* or the failed validation
RECURSIVE FromStrLabels(_, _, _)
FromStrLabels(b, last_used, labels) ==
    LET dots == {i \in last_used..(Len(b) - 1) : At(b, i) = 46} IN
    IF dots # {} THEN
        LET cursor == CHOOSE i \in dots : \A j \in dots : i <= j IN
        IF ~valudate_label(Slice(b, last_used, cursor)) THEN [ok |-> FALSE, labels |-> labels]
        ELSE FromStrLabels(b, cursor + 1, Append(labels, cursor - last_used))
    ELSE IF Len(b) - last_used > 0 THEN
        IF ~valudate_label(Slice(b, last_used, Len(b))) THEN [ok |-> FALSE, labels |-> labels]
        ELSE [ok |-> TRUE, labels |-> Append(labels, Len(b) - last_used)]
    ELSE [ok |-> TRUE, labels |-> labels]

\* <domain_name::DomainName as FromStr>::from_str(s)
DomainNameFromStr(s) ==
    IF Len(s) > MAX_NAME_SIZE THEN [ok |-> FALSE, labels |-> <<>>]
    ELSE FromStrLabels(s, 0, <<>>)

\* labels per generated text
MaxStrLabels == 2

\* the label lengths of generated texts: empty, shortest, MAX_LABEL_SIZE and
\* one more
StrLabelLens == {0, 1, MAX_LABEL_SIZE, MAX_LABEL_SIZE + 1}

\* labels of 'a' joined with '.'
RECURSIVE JoinDots(_)
JoinDots(ls) ==
    IF Len(ls) = 1 THEN Repeat(97, Head(ls))
    ELSE Repeat(97, Head(ls)) \o <<46>> \o JoinDots(Tail(ls))

Strings == {JoinDots(ls) : ls \in UNION {[1..k -> StrLabelLens] : k \in 1..MaxStrLabels}}

\* ------------------------------------------------------------------ long names
\* labels per generated name
MaxNameLabels == 6

\* the label lengths of generated names: the shortest, the longest the
\* legacy parsers take, and MAX_LABEL_LENGTH
LabelLens == {1, 62, MAX_LABEL_LENGTH}

\* the wire form of the name whose labels have the lengths ls, all of 'a'
RECURSIVE WireName(_)
WireName(ls) ==
    IF ls = <<>> THEN <<0>>
    ELSE <<Head(ls)>> \o Repeat(97, Head(ls)) \o WireName(Tail(ls))

\* such names, each followed by QTYPE = A and QCLASS = IN
LongNames ==
    {WireName(ls) \o <<0, 1, 0, 1>> : ls \in UNION {[1..k -> LabelLens] : k \in 1..MaxNameLabels}}

\* every buffer a parser is applied to
Inputs == Buffers \cup LongNames \cup Strings

\* ------------------------------------------------------------------ actions
\* no parser is running (the cache's specifications)
ParseIdle ==
    /\ buf = <<>>
    /\ off = 0
    /\ overflowChecks = FALSE
    /\ parser = "none"
    /\ ppc = "idle"
    /\ itLabel = NoRes
    /\ itYielded = FALSE
    /\ pointer_mask = 0
    /\ nlen = 0
    /\ followed = {}
    /\ owned = <<>>
    /\ pres = NoRes

\* a buffer arrives and a parser is about to be started at an offset in it
ParseInit ==
    /\ buf \in Inputs
    /\ off \in Offsets(buf)
    /\ overflowChecks \in BOOLEAN
    /\ parser = "none"
    /\ ppc = "idle"
    /\ itLabel = NoRes
    /\ itYielded = FALSE
    /\ pointer_mask = 0
    /\ nlen = 0
    /\ followed = {}
    /\ owned = <<>>
    /\ pres = NoRes

Finish(o, r) ==
    /\ ppc = "idle"
    /\ parser' = o
    /\ pres' = r
    /\ ppc' = "done"
    /\ UNCHANGED <<buf, off, overflowChecks, itLabel, itYielded, pointer_mask, nlen, followed, owned, notParseVars>>

RunLabelParse == Finish("Label::parse", LabelParse(buf, off))

RunLabelTryParse == Finish("Label::try_parse", LabelTryParse(buf, off))

RunHeaderTryFrom == off = 0 /\ Finish("Header::try_from", HeaderTryFrom(buf))

RunHeaderViewParse == Finish("HeaderView::parse", HeaderViewParse(buf, off))

RunQuestionTryParse == Finish("Question::try_parse", QuestionTryParse(Slice(buf, off, Len(buf))))

RunDomainNameTryFrom == Finish("DomainName::try_from", DomainNameTryFrom(Slice(buf, off, Len(buf))))

\* the two constructors take a &str
RunLabelFromStr == off = 0 /\ Utf8Ok(buf) /\ Finish("Label::from_str", LabelFromStr(buf))

RunDomainNameFromStr ==
    /\ ppc = "idle"
    /\ off = 0
    /\ Utf8Ok(buf)
    /\ parser' = "DomainName::from_str"
    /\ LET r == DomainNameFromStr(buf) IN
       /\ owned' = r.labels
       /\ pres' = IF r.ok THEN Ok("DomainName", Len(r.labels), 0)
                  ELSE IF Len(buf) > MAX_NAME_SIZE THEN Err("NameTooLong") ELSE Err("IllegalLabelChar")
    /\ ppc' = "done"
    /\ UNCHANGED <<buf, off, overflowChecks, itLabel, itYielded, pointer_mask, nlen, followed, notParseVars>>

RunPacketTryParse == off = 0 /\ Finish("DNSPacket::try_parse", PacketTryParse(buf))

RunPacketTryParseHeaderOnly == off = 0 /\ Finish("DNSPacket::try_parse_header_only", PacketTryParseHeaderOnly(buf))

\* DomainName::parse(bytes, offset) up to its loop: the first Label::parse
DomainNameParseStart ==
    /\ ppc = "idle"
    /\ parser' = "DomainName::parse"
    /\ LET first == LabelParse(buf, off) IN
       IF first.kind = "Err" THEN
            /\ pres' = first
            /\ ppc' = "done"
            /\ UNCHANGED itLabel
       ELSE IF first.lkind = "None" THEN
            /\ pres' = Ok("Root", 0, 0)
            /\ ppc' = "done"
            /\ UNCHANGED itLabel
       ELSE /\ itLabel' = first
            /\ ppc' = "walk"
            /\ UNCHANGED pres
    /\ UNCHANGED <<buf, off, overflowChecks, itYielded, pointer_mask, nlen, followed, owned, notParseVars>>

CountLabel(n, label) == IF label.lkind = "Data" /\ n < MaxLabels THEN n + 1 ELSE n

DomainNameParseStep ==
    /\ ppc = "walk"
    /\ IF ~itYielded THEN
            /\ itYielded' = TRUE
            /\ nlen' = CountLabel(nlen, itLabel)
            /\ UNCHANGED <<itLabel, followed, pres, ppc>>
       ELSE LET next == LabelIterNext(buf, itLabel, pointer_mask, overflowChecks) IN
            /\ followed' = IF itLabel.lkind = "Pointer" THEN followed \cup {itLabel.offset} ELSE followed
            /\ IF next.kind # "Ok" THEN
                    /\ pres' = next
                    /\ ppc' = "done"
                    /\ UNCHANGED <<itLabel, nlen>>
               ELSE IF next.lkind = "None" THEN
                    /\ pres' = Ok("Name", off, nlen)
                    /\ ppc' = "done"
                    /\ itLabel' = NoRes
                    /\ UNCHANGED nlen
               ELSE /\ itLabel' = next
                    /\ nlen' = CountLabel(nlen, next)
                    /\ UNCHANGED <<pres, ppc>>
            /\ UNCHANGED itYielded
    /\ UNCHANGED <<buf, off, overflowChecks, parser, pointer_mask, owned, notParseVars>>

ParseNext ==
    \/ RunLabelParse
    \/ RunLabelTryParse
    \/ RunHeaderTryFrom
    \/ RunHeaderViewParse
    \/ RunQuestionTryParse
    \/ RunDomainNameTryFrom
    \/ RunLabelFromStr
    \/ RunDomainNameFromStr
    \/ RunPacketTryParse
    \/ RunPacketTryParseHeaderOnly
    \/ DomainNameParseStart
    \/ DomainNameParseStep

\* ==================================================================
\* Part III, the header codec: Header::write_into and the header parsers.
\* ==================================================================

\* a | b on u8
RECURSIVE Or8From(_, _, _)
Or8From(a, b, i) ==
    IF i = 8 THEN 0
    ELSE (IF (a \div (2 ^ i)) % 2 = 1 \/ (b \div (2 ^ i)) % 2 = 1 THEN 2 ^ i ELSE 0) + Or8From(a, b, i + 1)

Or8(a, b) == Or8From(a, b, 0)

\* x << k on u8
Shl8(x, k) == (x * (2 ^ k)) % 256

\* b as u8
AsU8(b) == IF b THEN 1 ELSE 0

\* Header: message_type is MessageType::as_u8, opcode is Opcode::as_u8 and
\* response_code is ResponseCode::as_u8
Headers ==
    [ id : {0, 1234, 65535},
      message_type : {0, 1},
      opcode : 0..2,
      authoritive_answer : BOOLEAN,
      truncated : BOOLEAN,
      recursion_desired : BOOLEAN,
      recursion_available : BOOLEAN,
      response_code : 0..5,
      question_entries : {0, 1, 65535},
      answer_entries : {0, 258},
      authority_entries : {0},
      additional_entries : {0} ]

\* Header::new(id)
HeaderNew(id) ==
    [ id |-> id, message_type |-> 0, opcode |-> 0, authoritive_answer |-> FALSE,
      truncated |-> FALSE, recursion_desired |-> FALSE, recursion_available |-> FALSE,
      response_code |-> 0, question_entries |-> 0, answer_entries |-> 0,
      authority_entries |-> 0, additional_entries |-> 0 ]

\* 12-octet headers: every value of the two flags octets
HeaderOctets ==
    {<<4, 210, b2, b3, 0, q, 0, 0, 0, 0, 0, 0>> : b2 \in 0..255, b3 \in 0..255, q \in {0, 1}}

\* Header::write_into(&self, buffer): the 12 octets written
HeaderWriteInto(h) ==
    << h.id \div 256, h.id % 256,
       Or8(Or8(Or8(Or8(AsU8(h.recursion_desired), Shl8(AsU8(h.truncated), 1)),
                   Shl8(AsU8(h.authoritive_answer), 2)),
               Shl8(h.opcode, 6)),
           Shl8(h.message_type, 7)),
       Or8(h.response_code, Shl8(AsU8(h.recursion_available), 7)),
       h.question_entries \div 256, h.question_entries % 256,
       h.answer_entries \div 256, h.answer_entries % 256,
       h.authority_entries \div 256, h.authority_entries % 256,
       h.additional_entries \div 256, h.additional_entries % 256 >>

\* <Header as TryFrom<&[u8]>>::try_from(value): the Header it builds when it
\* returns Ok
HeaderFields(value) ==
    [ id |-> U16(At(value, 0), At(value, 1)),
      message_type |-> IF At(value, 2) \div 16 = 15 THEN 1 ELSE 0,
      opcode |-> (At(value, 2) \div 8) % 16,
      authoritive_answer |-> (At(value, 2) \div 4) % 2 = 1,
      truncated |-> (At(value, 2) \div 2) % 2 = 1,
      recursion_desired |-> At(value, 2) % 2 = 1,
      recursion_available |-> At(value, 3) \div 16 = 15,
      response_code |-> At(value, 3) % 16,
      question_entries |-> U16(At(value, 4), At(value, 5)),
      answer_entries |-> U16(At(value, 6), At(value, 7)),
      authority_entries |-> U16(At(value, 8), At(value, 9)),
      additional_entries |-> U16(At(value, 10), At(value, 11)) ]

\* header_view::DNSHeaderView_::<Valid>::new(buffer)
DNSHeaderViewNew(buffer) ==
    IF Len(buffer) = 0 THEN Ok("None", 0, 0)
    ELSE IF Len(buffer) # HeaderSize THEN Err("IncorrectHeaderSize")
    ELSE IF (At(buffer, 2) \div 8) % 16 > 2 THEN Err("UnknownOpcode")
    ELSE IF At(buffer, 3) % 16 > 5 THEN Err("UnknownResponseCode")
    ELSE IF (At(buffer, 3) \div 2) % 8 # 0 THEN Err("ReservedBitsInUse")
    ELSE Ok("Header", 0, 0)

\* no header is being coded
HeaderIdle ==
    /\ hpc = "idle"
    /\ header0 = HeaderNew(0)
    /\ octets0 = <<>>
    /\ hdr = HeaderNew(0)
    /\ octets = <<>>
    /\ hparser = "none"
    /\ hres = NoRes

\* a Header to write, or 12 octets to parse
HeaderInit ==
    /\ \/ /\ hpc = "header"
          /\ header0 \in Headers
          /\ octets0 = <<>>
       \/ /\ hpc = "octets"
          /\ header0 = HeaderNew(0)
          /\ octets0 \in HeaderOctets
    /\ hdr = header0
    /\ octets = octets0
    /\ hparser = "none"
    /\ hres = NoRes

\* header.write_into(&mut buffer), on the Header given or the one parsed
WriteInto ==
    /\ hpc \in {"header", "parsed"}
    /\ octets' = HeaderWriteInto(hdr)
    /\ hpc' = IF hpc = "header" THEN "written" ELSE "rewritten"
    /\ UNCHANGED <<header0, octets0, hdr, hparser, hres, notHeaderVars>>

\* Header::try_from(&buffer[..]), on the octets given or the ones written
TryFrom ==
    /\ hpc \in {"octets", "written"}
    /\ hparser' = "Header::try_from"
    /\ hres' = HeaderTryFrom(octets)
    /\ hdr' = IF hres'.kind = "Ok" THEN HeaderFields(octets) ELSE hdr
    /\ hpc' = IF hpc = "written" THEN "read"
              ELSE IF hres'.kind = "Ok" THEN "parsed" ELSE "rejected"
    /\ UNCHANGED <<header0, octets0, octets, notHeaderVars>>

\* GenericHeaderView::<Valid>::new(&buffer) on the octets given
ViewNew ==
    /\ hpc = "octets"
    /\ hparser' = "GenericHeaderView::new"
    /\ hres' = HeaderViewNew(octets)
    /\ hpc' = "viewed"
    /\ UNCHANGED <<header0, octets0, hdr, octets, notHeaderVars>>

\* DNSHeaderView_::<Valid>::new(&buffer) on the octets given
DNSViewNew ==
    /\ hpc = "octets"
    /\ hparser' = "DNSHeaderView_::new"
    /\ hres' = DNSHeaderViewNew(octets)
    /\ hpc' = "viewed"
    /\ UNCHANGED <<header0, octets0, hdr, octets, notHeaderVars>>

HeaderNext ==
    \/ WriteInto
    \/ TryFrom
    \/ ViewNew
    \/ DNSViewNew

\* ==================================================================
\* Part IV, the packet builder: DNSPacket::respond, add_question,
\* add_answer, disable_compression, build_into and write_name.
\* ==================================================================

\* bounds of the packet builder
MaxRecords == 3
LongDataLen == 240
SmallBody == 28

\* Class::IN and the size of the server's buffers
ClassIN == 1
MAX_MESSAGE_SIZE == 512

\* the names handed to the builder: the root, "c", "b.c", "a.b.c" and "B.c"
BuildNames ==
    { <<>>, <<<<99>>>>, <<<<98>>, <<99>>>>, <<<<97>>, <<98>>, <<99>>>>, <<<<66>>, <<99>>>> }

\* record data: four octets of an address, or a long text
BuildData == {<<127, 0, 0, 1>>, Repeat(120, LongDataLen)}

\* the lengths of the slice handed to build_into
OutLens == {HeaderSize + SmallBody, MAX_MESSAGE_SIZE}

\* u8::eq_ignore_ascii_case on one octet
Lower(c) == IF c \in 65..90 THEN c + 32 ELSE c

\* <Label as PartialEq>::eq
LabelEq(a, b) == Len(a) = Len(b) /\ \A i \in 1..Len(a) : Lower(a[i]) = Lower(b[i])

\* DomainName == DomainName: label by label
NameEq(a, b) == Len(a) = Len(b) /\ \A i \in 1..Len(a) : LabelEq(a[i], b[i])

\* DomainName::len_in_packet
RECURSIVE NameLenInPacket(_)
NameLenInPacket(name) ==
    IF name = <<>> THEN 1 ELSE Len(Head(name)) + 1 + NameLenInPacket(Tail(name))

\* written_names.iter().find(|(name, _)| name == domain_name): the index of
\* the first entry of that name, 0 for none
FindWritten(written_names, name) ==
    LET hits == {i \in 1..Len(written_names) : NameEq(written_names[i].name, name)}
    IN  IF hits = {} THEN 0 ELSE CHOOSE i \in hits : \A j \in hits : i <= j

\* the two octets of a pointer to offset
PointerOctets(offset) == <<Or8(((offset \div 256) % 256) % 64, 192), offset % 256>>

\* write_name, its loop over the labels: the octets behind `out`, the labels
\* of the name written and the number of them a pointer stands for
RECURSIVE WriteLabels(_, _, _, _, _)
WriteLabels(out, labels, domain_labels, compress, written_names) ==
    IF labels = <<>> THEN [out |-> out, domain_labels |-> domain_labels, pointer |-> 0]
    ELSE LET out1 == out \o <<Len(labels[1]) % 256>> \o labels[1]
             dl1 == Append(domain_labels, labels[1])
             rest == Tail(labels)
             hit == FindWritten(written_names, rest)
         IN  IF rest = <<>> THEN [out |-> out1, domain_labels |-> dl1, pointer |-> 0]
             ELSE IF compress /\ hit # 0 THEN
                  [ out |-> out1 \o PointerOctets(written_names[hit].offset),
                    domain_labels |-> dl1 \o written_names[hit].name,
                    pointer |-> Len(written_names[hit].name) ]
             ELSE WriteLabels(out1, rest, dl1, compress, written_names)

\* sum of label.len() + 1 over the labels
RECURSIVE LabelsLen(_)
LabelsLen(labels) == IF labels = <<>> THEN 0 ELSE Len(Head(labels)) + 1 + LabelsLen(Tail(labels))

\* write_name, its last loop: the entries pushed to written_names for the
\* name written, size being the length of the message behind it
RECURSIVE PushWritten(_, _, _, _, _)
PushWritten(written_names, domain_labels, pointer, size, i) ==
    IF i > Len(domain_labels) - pointer THEN written_names
    ELSE LET labels == SubSeq(domain_labels, Len(domain_labels) - pointer - i + 1, Len(domain_labels))
             buffer_len == 1 + LabelsLen(SubSeq(labels, 1, Len(labels) - pointer))
         IN  PushWritten(Append(written_names, [name |-> labels, offset |-> size - buffer_len]),
                         domain_labels, pointer, size, i + 1)

\* write_name(buffer, size, domain_name, compress, written_names): the
\* message with the name behind it, and the names it can be pointed at
WriteName(out, domain_name, compress, written_names) ==
    LET hit == FindWritten(written_names, domain_name) IN
    IF compress /\ hit # 0 THEN
        [out |-> out \o PointerOctets(written_names[hit].offset), written_names |-> written_names]
    ELSE LET w == WriteLabels(out, domain_name, <<>>, compress, written_names)
             out1 == IF w.pointer = 0 THEN w.out \o <<0>> ELSE w.out
         IN  [ out |-> out1,
               written_names |-> PushWritten(written_names, w.domain_labels, w.pointer, Len(out1), 1) ]

\* u32 and u16 to_be_bytes
Be16(n) == <<(n \div 256) % 256, n % 256>>
Be32(n) == <<(n \div 16777216) % 256, (n \div 65536) % 256, (n \div 256) % 256, n % 256>>

\* build_into, its two loops: the questions, then the answers, each written
\* behind `out` unless its len_in_packet() exceeds what is left of the slice
RECURSIVE BuildRecords(_, _, _, _, _)
BuildRecords(st, questions, answers, compress, cap) ==
    IF questions # <<>> THEN
        LET question == Head(questions) IN
        IF NameLenInPacket(question.name) + 4 > cap - Len(st.out)
        THEN [st EXCEPT !.kind = "Err"]
        ELSE LET w == WriteName(st.out, question.name, compress, st.written_names) IN
             BuildRecords([st EXCEPT !.out = w.out \o Be16(question.q_type) \o Be16(question.q_class),
                                     !.written_names = w.written_names,
                                     !.questions = Append(@, Len(st.out))],
                          Tail(questions), answers, compress, cap)
    ELSE IF answers # <<>> THEN
        LET answer == Head(answers) IN
        IF 10 + NameLenInPacket(answer.name) + Len(answer.data) > cap - Len(st.out)
        THEN [st EXCEPT !.kind = "Err"]
        ELSE LET w == WriteName(st.out, answer.name, compress, st.written_names) IN
             BuildRecords([st EXCEPT !.out = w.out \o Be16(answer.typ) \o Be16(answer.class)
                                               \o Be32(answer.ttl) \o Be16(Len(answer.data)) \o answer.data,
                                     !.written_names = w.written_names,
                                     !.answers = Append(@, Len(st.out))],
                          questions, Tail(answers), compress, cap)
    ELSE st

\* DNSPacketBuilder::build_into(self, out_buffer): Ok((packet, size)) or
\* Err(TooLarge); out holds the octets written, questions and answers the
\* offsets of the records written
BuildInto(b, cap) ==
    IF cap < HeaderSize THEN [kind |-> "Panic", out |-> <<>>, written_names |-> <<>>, questions |-> <<>>, answers |-> <<>>]
    ELSE BuildRecords([kind |-> "Ok", out |-> HeaderWriteInto(b.header), written_names |-> <<>>,
                       questions |-> <<>>, answers |-> <<>>],
                      b.questions, b.answers, b.compress, cap)

NoBuilder == [header |-> HeaderNew(0), questions |-> <<>>, answers |-> <<>>, compress |-> FALSE]

NoBuilt == [kind |-> "none", out |-> <<>>, written_names |-> <<>>, questions |-> <<>>, answers |-> <<>>]

\* no builder yet
BuildIdle ==
    /\ bpc = "idle"
    /\ builder = NoBuilder
    /\ out_len = 0
    /\ built = NoBuilt

\* DNSPacket::respond(&self, code) on a parsed packet of that id, opcode and RD
Respond ==
    /\ bpc = "idle"
    /\ \E id \in {1234}, opcode \in {0, 2}, rd \in BOOLEAN, code \in {0} :
         builder' = [ header |-> [HeaderNew(id) EXCEPT !.opcode = opcode, !.recursion_desired = rd,
                                                       !.message_type = 1, !.response_code = code],
                      questions |-> <<>>, answers |-> <<>>, compress |-> TRUE ]
    /\ bpc' = "builder"
    /\ UNCHANGED <<out_len, built, notBuildVars>>

\* add_question that pushes the question and leaves the count alone
AddQuestionToUncounted(b, question) == [b EXCEPT !.questions = Append(@, question)]

\* DNSPacketBuilder::add_question(self, question)
AddQuestionTo(b, question) ==
    [b EXCEPT !.questions = Append(@, question),
              !.header.question_entries = (@ + 1) % 65536]

add_question ==
    /\ bpc = "builder"
    /\ Len(builder.questions) + Len(builder.answers) < MaxRecords
    /\ \E name \in BuildNames :
         builder' = AddQuestionTo(builder, [name |-> name, q_type |-> TypeA, q_class |-> ClassIN])
    /\ UNCHANGED <<bpc, out_len, built, notBuildVars>>

\* DNSPacketBuilder::add_answer(self, answer)
AddAnswerTo(b, answer) ==
    [b EXCEPT !.answers = Append(@, answer),
              !.header.answer_entries = (@ + 1) % 65536]

add_answer ==
    /\ bpc = "builder"
    /\ Len(builder.questions) + Len(builder.answers) < MaxRecords
    /\ \E name \in BuildNames, data \in BuildData :
         builder' = AddAnswerTo(builder, [name |-> name, typ |-> TypeA, class |-> ClassIN, ttl |-> 60, data |-> data])
    /\ UNCHANGED <<bpc, out_len, built, notBuildVars>>

\* DNSPacketBuilder::disable_compression(self)
disable_compression ==
    /\ bpc = "builder"
    /\ builder.compress
    /\ builder' = [builder EXCEPT !.compress = FALSE]
    /\ UNCHANGED <<bpc, out_len, built, notBuildVars>>

\* DNSPacketBuilder::build_into(self, out_buffer)
build_into ==
    /\ bpc = "builder"
    /\ \E cap \in OutLens :
         /\ out_len' = cap
         /\ built' = BuildInto(builder, cap)
    /\ bpc' = "built"
    /\ UNCHANGED <<builder, notBuildVars>>

BuildNext ==
    \/ Respond
    \/ add_question
    \/ add_answer
    \/ disable_compression
    \/ build_into

\* ==================================================================
\* Part V, ArrayBuffer: the growable buffer, its write side (BufMut) and
\* its read side (Buf).  A buffer without with_max_len behaves as one with
\* max_len = usize::MAX in every method.
\* ==================================================================

\* bound of the buffers: max_len and the octets of one put
MaxBufLen == 4

\* octets a buffer is filled with at the most: one more than the largest
\* storage it starts with
MaxFill == MaxBufLen + 3

\* usize::MAX, as far as the numbers of the model go
USIZE_MAX == 2147483647

\* an octet of the storage that was never written
Uninit == 256

\* Data::with_capacity values the buffers start from; the first is new()
BufCaps == {0, 2, MaxBufLen + 2}

\* ArrayBuffer::new().with_max_len(max_len) and
\* ArrayBuffer::with_capacity(capacity).with_max_len(max_len)
ArrayBufferNew(capacity, null, max_len) ==
    [read_cursor |-> 0, len |-> 0, max_len |-> max_len, cap |-> capacity, null |-> null,
     data |-> Repeat(Uninit, capacity)]

\* BufMut::remaining_mut
remaining_mut(b) == IF b.max_len >= b.len THEN b.max_len - b.len ELSE 0

\* ArrayBuffer::capacity
capacity(b) == IF b.null THEN 0 ELSE b.cap

\* ArrayBuffer::as_slice: the first min(max_len, len) octets of the storage
as_slice(b) ==
    IF b.null THEN <<>>
    ELSE SubSeq(b.data, 1, IF b.max_len < b.len THEN b.max_len ELSE b.len)

\* Data::with_capacity(new_len) and copy_from: the octets of the old
\* storage in front of storage that was never written
Regrown(b, new_len) ==
    [b EXCEPT !.cap = new_len, !.null = FALSE,
              !.data = [i \in 1..new_len |-> IF i <= capacity(b) THEN b.data[i] ELSE Uninit]]

\* a grow that allocates and copies nothing over
growWithoutCopy(b, min_new_space) ==
    LET cap == capacity(b)
        grown == IF (cap * 3) \div 2 > cap + min_new_space THEN (cap * 3) \div 2 ELSE cap + min_new_space
        new_len == IF b.max_len < grown THEN b.max_len ELSE grown
    IN  IF new_len < cap THEN b
        ELSE [b EXCEPT !.cap = new_len, !.null = FALSE, !.data = Repeat(Uninit, new_len)]

\* ArrayBuffer::grow(min_new_space)
grow(b, min_new_space) ==
    LET cap == capacity(b)
        grown == IF (cap * 3) \div 2 > cap + min_new_space THEN (cap * 3) \div 2 ELSE cap + min_new_space
        new_len == IF b.max_len < grown THEN b.max_len ELSE grown
    IN  IF new_len < cap THEN b ELSE Regrown(b, new_len)

\* BufMut::chunk_mut: the buffer behind it; "Data is null" is its panic
chunk_mut(b) ==
    IF b.len >= capacity(b)
    THEN grow(b, IF 64 > b.len - capacity(b) THEN 64 ELSE b.len - capacity(b))
    ELSE b

\* the length of the window chunk_mut returns
ChunkLen(b) == capacity(b) - b.len

\* BufMut::advance_mut(cnt): the assertion, then len += cnt
AdvanceOk(b, cnt) == b.len + cnt < b.max_len

\* ptr::copy_nonoverlapping(src, dst, cnt) into the window of chunk_mut
Copied(b, src, cnt) ==
    [b EXCEPT !.data = [i \in 1..Len(b.data) |->
                          IF i > b.len /\ i <= b.len + cnt THEN src[i - b.len] ELSE b.data[i]]]

\* BufMut::put_slice(src), written chunk by chunk
RECURSIVE PutLoop(_, _, _)
PutLoop(b, src, fuel) ==
    IF src = <<>> THEN [ok |-> TRUE, buf |-> b]
    ELSE LET c == chunk_mut(b)
             cnt == IF Len(src) < ChunkLen(c) THEN Len(src) ELSE ChunkLen(c)
         IN  IF fuel = 0 \/ ~AdvanceOk(c, cnt) THEN [ok |-> FALSE, buf |-> Copied(c, src, cnt)]
             ELSE PutLoop([Copied(c, src, cnt) EXCEPT !.len = @ + cnt],
                          SubSeq(src, cnt + 1, Len(src)), fuel - 1)

put_slice(b, src) ==
    IF remaining_mut(b) < Len(src) THEN [ok |-> FALSE, buf |-> b]
    ELSE PutLoop(b, src, Len(src) + 1)

\* Buf::remaining: len - read_cursor
remaining(b) == b.len - b.read_cursor

\* Buf::advance(cnt): the assertion, then read_cursor += cnt
AdvanceReadOk(b, cnt) == b.read_cursor + cnt < b.len

NoBuffer == ArrayBufferNew(0, TRUE, 0)

\* the fields of the struct without the storage behind its pointer
Fields(b) == [b EXCEPT !.data = <<>>]

\* the last call, and the octets put so far as long as nothing but puts
\* was called
NoBufOp == [op |-> "none", n |-> 0, before |-> Fields(NoBuffer), ok |-> TRUE, put |-> None]

\* no buffer yet
BufferIdle ==
    /\ apc = "idle"
    /\ abuf = NoBuffer
    /\ aop = NoBufOp

Construct ==
    /\ apc = "idle"
    /\ \E c \in BufCaps, null \in BOOLEAN, m \in 0..MaxBufLen \cup {USIZE_MAX} :
         /\ null => c = 0
         /\ abuf' = ArrayBufferNew(c, null, m)
    /\ apc' = "live"
    /\ aop' = [NoBufOp EXCEPT !.op = "with_max_len", !.put = Some(<<>>)]
    /\ UNCHANGED notBufferVars

\* BufMut::chunk_mut
ChunkMut ==
    /\ apc = "live"
    /\ aop' = [op |-> "chunk_mut", n |-> 0, before |-> Fields(abuf), ok |-> TRUE, put |-> None]
    /\ abuf' = chunk_mut(abuf)
    /\ UNCHANGED <<apc, notBufferVars>>

\* the octets a caller writes: the n octets behind `from` of the sequence
\* 1, 2, 3, ..
Octets(from, n) == [i \in 1..n |-> (from + i) % 256]

\* unsafe advance_mut(cnt), cnt octets of the window of chunk_mut written
AdvanceMut ==
    /\ apc = "live"
    /\ ~abuf.null
    /\ \E cnt \in 0..MaxBufLen :
         /\ cnt <= ChunkLen(abuf)
         /\ abuf.len + cnt <= MaxFill
         /\ aop' = [op |-> "advance_mut", n |-> cnt, before |-> Fields(abuf),
                    ok |-> AdvanceOk(abuf, cnt), put |-> None]
         /\ abuf' = IF AdvanceOk(abuf, cnt)
                    THEN [Copied(abuf, Octets(abuf.len, cnt), cnt) EXCEPT !.len = @ + cnt]
                    ELSE Copied(abuf, Octets(abuf.len, cnt), cnt)
         /\ apc' = IF AdvanceOk(abuf, cnt) THEN "live" ELSE "panicked"
    /\ UNCHANGED notBufferVars

\* a put of src
Put(name, src) ==
    LET r == put_slice(abuf, src) IN
    /\ abuf.len + Len(src) <= MaxFill
    /\ aop' = [op |-> name, n |-> Len(src), before |-> Fields(abuf), ok |-> r.ok,
               put |-> IF aop.put.some /\ r.ok THEN Some(aop.put.v \o src) ELSE None]
    /\ abuf' = r.buf
    /\ apc' = IF r.ok THEN "live" ELSE "panicked"

PutSlice ==
    /\ apc = "live"
    /\ \E n \in 0..MaxBufLen : Put("put_slice", Octets(abuf.len, n))
    /\ UNCHANGED notBufferVars

\* BufMut::put_u16(n): put_slice(&n.to_be_bytes())
PutU16 ==
    /\ apc = "live"
    /\ Put("put_u16", Be16(U16((abuf.len + 1) % 256, (abuf.len + 2) % 256)))
    /\ UNCHANGED notBufferVars

\* ArrayBuffer::set_len(new_len), used to roll back to an earlier length
SetLen ==
    /\ apc = "live"
    /\ \E new_len \in 0..abuf.len :
         /\ aop' = [op |-> "set_len", n |-> new_len, before |-> Fields(abuf), ok |-> TRUE, put |-> None]
         /\ abuf' = [abuf EXCEPT !.len = new_len]
    /\ UNCHANGED <<apc, notBufferVars>>

\* ArrayBuffer::clear
Clear ==
    /\ apc = "live"
    /\ aop' = [op |-> "clear", n |-> 0, before |-> Fields(abuf), ok |-> TRUE, put |-> None]
    /\ abuf' = [abuf EXCEPT !.len = 0, !.read_cursor = 0]
    /\ UNCHANGED <<apc, notBufferVars>>

\* Buf::advance(cnt)
Advance ==
    /\ apc = "live"
    /\ \E cnt \in 0..MaxBufLen :
         /\ aop' = [op |-> "advance", n |-> cnt, before |-> Fields(abuf),
                    ok |-> AdvanceReadOk(abuf, cnt), put |-> None]
         /\ abuf' = IF AdvanceReadOk(abuf, cnt) THEN [abuf EXCEPT !.read_cursor = @ + cnt] ELSE abuf
         /\ apc' = IF AdvanceReadOk(abuf, cnt) THEN "live" ELSE "panicked"
    /\ UNCHANGED notBufferVars

BufferNext ==
    \/ Construct
    \/ ChunkMut
    \/ AdvanceMut
    \/ PutSlice
    \/ PutU16
    \/ SetLen
    \/ Clear
    \/ Advance

\* ==================================================================
\* Part VI, the server: main's receive loop.
\* ==================================================================

\* datagrams followed per run
MaxDatagrams == 3

\* ResponseCode::FormatError
FormatError == 1

\* what recv_from delivers
Datagrams == {p \o b : p \in Prefixes, b \in BodiesUpTo(1)}

\* recv_from(&mut buf): the first two octets of buf behind a datagram
Received(buf2, datagram) ==
    [i \in 1..2 |-> IF i <= Len(datagram) THEN datagram[i] ELSE buf2[i]]

\* the response to a datagram that did not parse: Header::new(id) with
\* response_code = FormatError, written into response[..Header::SIZE]
FormatErrorResponse(buf2) ==
    HeaderWriteInto([HeaderNew(U16(buf2[1], buf2[2])) EXCEPT !.response_code = FormatError])

\* "codecrafters" and "io"
CodecraftersIo ==
    << <<99, 111, 100, 101, 99, 114, 97, 102, 116, 101, 114, 115>>, <<105, 111>> >>

\* main's DNSPacketBuilder::build_into, its loop over the parts of a question:
\* the octets of the name up to the octet the end marker is expected at,
\* which is left as the buffer holds it
RECURSIVE PartsOctets(_)
PartsOctets(parts) ==
    IF parts = <<>> THEN <<>>
    ELSE <<Len(Head(parts))>> \o Head(parts) \o PartsOctets(Tail(parts))

\* DNSPacket::builder(1234).response().add_question(A, IN, codecrafters.io)
\* .build_into(&mut response[..]): the octets of response[..resp_size]; the
\* octet behind the name has not been written since the buffer was zeroed
FixedResponse ==
    HeaderWriteInto([HeaderNew(1234) EXCEPT !.message_type = 1, !.question_entries = 1])
        \o PartsOctets(CodecraftersIo) \o <<0>> \o Be16(TypeA) \o Be16(ClassIN)

\* nothing bound yet
ServerIdle ==
    /\ spc = "idle"
    /\ sbuf2 = <<0, 0>>
    /\ sdatagram = <<>>
    /\ sevent = "none"
    /\ sreply = <<>>
    /\ served = 0

\* UdpSocket::bind(..) and the two zeroed buffers
Bind ==
    /\ spc = "idle"
    /\ spc' = "serving"
    /\ UNCHANGED <<sbuf2, sdatagram, sevent, sreply, served, notServerVars>>

\* recv_from fails: the loop is left
RecvError ==
    /\ spc = "serving"
    /\ spc' = "stopped"
    /\ sevent' = "recv_error"
    /\ sreply' = <<>>
    /\ UNCHANGED <<sbuf2, sdatagram, served, notServerVars>>

\* one turn of the loop for one datagram: parse it, send the response
Serve ==
    /\ spc = "serving"
    /\ served < MaxDatagrams
    /\ \E datagram \in Datagrams, sent \in BOOLEAN :
         LET packet == PacketTryParse(datagram) IN
         /\ sdatagram' = datagram
         /\ sbuf2' = Received(sbuf2, datagram)
         /\ IF packet.kind = "Panic" THEN
                 /\ sevent' = "panic"
                 /\ sreply' = <<>>
                 /\ spc' = "crashed"
            ELSE IF packet.kind = "Err" THEN
                 /\ sevent' = IF sent THEN "format_error" ELSE "send_failed"
                 /\ sreply' = IF sent THEN FormatErrorResponse(sbuf2') ELSE <<>>
                 /\ spc' = "serving"
            ELSE /\ sevent' = IF sent THEN "answered" ELSE "panic"
                 /\ sreply' = IF sent THEN FixedResponse ELSE <<>>
                 /\ spc' = IF sent THEN "serving" ELSE "crashed"
    /\ served' = served + 1
    /\ UNCHANGED notServerVars

ServerNext ==
    \/ Bind
    \/ RecvError
    \/ Serve

\* ==================================================================
\* Part VII, the packet view: proto::Packet::parse and its iterators.
\* ==================================================================

\* entries a body is made of, and the largest count a header declares
MaxEntries == 3
MaxCount == 2

\* a call that never returns
Hang(why) == Res("Hang", why, "", 0, 0)

RECURSIVE NameLabels(_, _, _, _)

\* the loop's turn for `next`, the item LabelIter::next returned behind
\* `label`
NameLabelsNext(bytes, label, next, seen, checks) ==
    IF next.kind # "Ok" THEN next
    ELSE IF next.lkind = "None" THEN Ok("Name", 0, 0)
    ELSE NameLabels(bytes, next,
                    IF label.lkind = "Pointer" THEN seen \cup {label.offset} ELSE seen,
                    checks)

\* DomainName::parse, its loop `for res in label`: LabelIter::next from
\* `label` on.  pointer_mask stays 0, so a pointer that was followed before
\* is followed again: the loop does not end
NameLabels(bytes, label, seen, checks) ==
    IF label.lkind = "Pointer" /\ label.offset \in seen THEN Hang("pointer cycle")
    ELSE NameLabelsNext(bytes, label, LabelIterNext(bytes, label, 0, checks), seen, checks)

\* DomainName::parse behind its first Label::parse
DomainNameFrom(bytes, label, checks) ==
    IF label.kind # "Ok" THEN label
    ELSE IF label.lkind = "None" THEN Ok("Name", 0, 0)
    ELSE NameLabels(bytes, label, {}, checks)

\* proto::domain_name::DomainName::parse(bytes, offset)
DomainNameParse(bytes, offset, checks) ==
    DomainNameFrom(bytes, LabelParse(bytes, offset), checks)

\* len += 1 + data.len()
AddSize(size, n) ==
    IF size.kind # "Ok" THEN size ELSE Ok("Size", 0, n + size.len)

RECURSIVE SizeInPacket(_, _)

\* size_in_packet from one label on: a pointer ends the count with 2
\* octets, the end of the name with 1
SizeFrom(bytes, offset, label) ==
    IF label.kind # "Ok" THEN Panic("Domain name labels to be validated")
    ELSE IF label.lkind = "None" THEN Ok("Size", 0, 1)
    ELSE IF label.lkind = "Pointer" THEN Ok("Size", 0, 2)
    ELSE AddSize(SizeInPacket(bytes, offset + 1 + label.len), 1 + label.len)

\* DomainName::size_in_packet of the name at offset: the labels up to the
\* first pointer or the end of the name
SizeInPacket(bytes, offset) == SizeFrom(bytes, offset, LabelParse(bytes, offset))

\* self.name().size_in_packet() with the name's parse unwrapped
NameSizeOf(name, size) ==
    IF name.kind = "Err" THEN Panic("Domain name to be checked")
    ELSE IF name.kind # "Ok" THEN name
    ELSE size

\* Question::name / Resource::name, then size_in_packet
NameSize(bytes, offset, checks) ==
    NameSizeOf(DomainNameParse(bytes, offset, checks), SizeInPacket(bytes, offset))

\* Question::parse behind DomainName::parse: the four octets of QTYPE and
\* QCLASS are inside the buffer
QuestionOf(bytes, offset, name, name_size) ==
    IF name.kind # "Ok" THEN name
    ELSE IF name_size.kind # "Ok" THEN name_size
    ELSE IF offset + name_size.len + 4 > Len(bytes) THEN Err("EOF")
    ELSE Ok("Question", offset, 0)

\* proto::question::Question::parse(bytes, offset)
QuestionParse(bytes, offset, checks) ==
    QuestionOf(bytes, offset, DomainNameParse(bytes, offset, checks), SizeInPacket(bytes, offset))

\* Question::size_in_packet
QuestionSizeInPacket(bytes, offset, checks) == AddSize(NameSize(bytes, offset, checks), 4)

\* Resource::parse behind DomainName::parse: the ten fixed octets and the
\* data are inside the buffer
ResourceOf(bytes, offset, name, name_size) ==
    IF name.kind # "Ok" THEN name
    ELSE IF name_size.kind # "Ok" THEN name_size
    ELSE IF offset + name_size.len + 10 > Len(bytes) THEN Err("EOF")
    ELSE IF offset + name_size.len + 10
              + U16(At(bytes, offset + name_size.len + 8), At(bytes, offset + name_size.len + 9))
            > Len(bytes) THEN Err("EOF")
    ELSE Ok("Resource", offset, 0)

\* proto::resource::Resource::parse(bytes, offset)
ResourceParse(bytes, offset, checks) ==
    ResourceOf(bytes, offset, DomainNameParse(bytes, offset, checks), SizeInPacket(bytes, offset))

\* Resource::size_in_packet behind self.name().size_in_packet(): the two
\* octets of the data length are indexed without a check
ResourceSizeOf(bytes, offset, name_size) ==
    IF name_size.kind # "Ok" THEN name_size
    ELSE IF offset + name_size.len + 9 >= Len(bytes) THEN Panic("index out of bounds")
    ELSE Ok("Size", 0, 10 + name_size.len
                         + U16(At(bytes, offset + name_size.len + 8),
                               At(bytes, offset + name_size.len + 9)))

\* Resource::size_in_packet
ResourceSizeInPacket(bytes, offset, checks) ==
    ResourceSizeOf(bytes, offset, NameSize(bytes, offset, checks))

\* the four sections: questions, answers, authority, additional
Sections == 1..4

\* the item of a section is a Question or a Resource
ItemParse(sec, bytes, offset, checks) ==
    IF sec = 1 THEN QuestionParse(bytes, offset, checks)
    ELSE ResourceParse(bytes, offset, checks)

ItemSizeInPacket(sec, bytes, offset, checks) ==
    IF sec = 1 THEN QuestionSizeInPacket(bytes, offset, checks)
    ELSE ResourceSizeInPacket(bytes, offset, checks)

\* the counts of the header at offset: QDCOUNT, ANCOUNT, NSCOUNT, ARCOUNT
Entries(bytes, offset) ==
    [sec \in Sections |-> U16(At(bytes, offset + 2 + 2 * sec), At(bytes, offset + 3 + 2 * sec))]

\* PacketError of a section whose count was not reached
TooFew(sec, first) ==
    IF first[sec].some
    THEN CASE sec = 1 -> "TooFewQuestions" [] sec = 2 -> "TooFewAnswers"
           [] sec = 3 -> "TooFewAuthoriryItems" [] OTHER -> "TooFewAdditionalItems"
    ELSE CASE sec = 1 -> "NoQuestions" [] sec = 2 -> "NoAnswers"
           [] sec = 3 -> "NoAuthorityItems" [] OTHER -> "NoAdditionalItems"

\* what Packet::parse returns: the result, the Packet's four first items,
\* and (for the record) the items the sweep decoded, in order
PacketRes(res, first, items) == [res |-> res, first |-> first, items |-> items]

\* the first section whose count is not used up
Pending(left) == CHOOSE sec \in Sections : left[sec] > 0 /\ \A s \in 1..(sec - 1) : left[s] = 0

RECURSIVE Sweep(_, _, _, _, _, _)

\* one turn of the while loop with the item parsed at packet_offset: an
\* error is returned, or the item is counted and the offset moved behind it
SweepItem(bytes, packet_offset, left, first, items, checks, sec, item, size) ==
    IF item.kind # "Ok" THEN PacketRes(item, first, items)
    ELSE IF size.kind # "Ok" THEN PacketRes(size, first, items)
    ELSE Sweep(bytes, packet_offset + size.len,
               [left EXCEPT ![sec] = @ - 1],
               IF first[sec].some THEN first ELSE [first EXCEPT ![sec] = Some(packet_offset)],
               Append(items, [sec |-> sec, offset |-> packet_offset, size |-> size.len]),
               checks)

\* the turn for the section sec
SweepSection(bytes, packet_offset, left, first, items, checks, sec) ==
    SweepItem(bytes, packet_offset, left, first, items, checks, sec,
              ItemParse(sec, bytes, packet_offset, checks),
              ItemSizeInPacket(sec, bytes, packet_offset, checks))

\* Packet::parse, its while loop and the checks behind it
Sweep(bytes, packet_offset, left, first, items, checks) ==
    IF packet_offset < Len(bytes) /\ \E sec \in Sections : left[sec] > 0
    THEN SweepSection(bytes, packet_offset, left, first, items, checks, Pending(left))
    ELSE IF packet_offset > Len(bytes) THEN PacketRes(Err("EOF"), first, items)
    ELSE IF \E sec \in Sections : left[sec] > 0
         THEN PacketRes(Err(TooFew(Pending(left), first)), first, items)
    ELSE PacketRes(Ok("Packet", 0, 0), first, items)

\* Packet::parse behind HeaderViewValidated::parse
PacketFrom(bytes, offset, header, checks) ==
    IF header.kind # "Ok" \/ header.lkind = "None"
    THEN PacketRes(header, [sec \in Sections |-> None], <<>>)
    ELSE Sweep(bytes, offset + HeaderSize, Entries(bytes, offset),
               [sec \in Sections |-> None], <<>>, checks)

\* proto::packet::Packet::parse(bytes, offset)
PacketParse(bytes, offset, checks) ==
    PacketFrom(bytes, offset, HeaderViewParse(bytes, offset), checks)

\* QuestionIter / ResourceIter: the count left and the item to yield
Iter(count, item) == [count |-> count, item |-> item]

\* Packet::questions / answers / authority / additional
PacketIter(sec, bytes, first) == Iter(Entries(bytes, 0)[sec], first[sec])

\* self.1 = parse(item.buffer, item.offset + item.size_in_packet()).unwrap()
IterParsed(it, next) ==
    IF next.kind = "Err" THEN [kind |-> "Panic", it |-> it]
    ELSE IF next.kind # "Ok" THEN [kind |-> next.kind, it |-> it]
    ELSE [kind |-> "Ok", it |-> Iter(it.count - 1, Some(next.offset))]

\* the item behind the one to yield, whose size is `size`
IterSized(sec, bytes, it, size, checks) ==
    IF size.kind # "Ok" THEN [kind |-> size.kind, it |-> it]
    ELSE IterParsed(it, ItemParse(sec, bytes, it.item.v + size.len, checks))

\* next() that parses the item behind the one it yields whatever the count
IterAdvanceUncounted(sec, bytes, it, checks) ==
    IterSized(sec, bytes, it, ItemSizeInPacket(sec, bytes, it.item.v, checks), checks)

\* QuestionIter::next / ResourceIter::next with an item to yield: the
\* iterator's fields afterwards
IterAdvance(sec, bytes, it, checks) ==
    IF it.count <= 1 THEN [kind |-> "Ok", it |-> Iter(0, None)]
    ELSE IterSized(sec, bytes, it, ItemSizeInPacket(sec, bytes, it.item.v, checks), checks)

\* ------------------------------------------------------------------ inputs
\* names: the root, "a", a pointer to the first name of the body, and a
\* pointer to offset 17 (the second entry behind a 5-octet question)
RootName == <<0>>
NameA == <<1, 97, 0>>
Pointer12 == <<192, 12>>
Pointer17 == <<192, 17>>

\* a question: name, QTYPE A, QCLASS IN
QuestionOctets(name) == name \o Be16(TypeA) \o Be16(ClassIN)

\* a resource record: name, TYPE A, CLASS IN, TTL 0, the data
ResourceOctets(name, data) ==
    name \o Be16(TypeA) \o Be16(ClassIN) \o Be32(0) \o Be16(Len(data)) \o data

BodyEntries ==
    { QuestionOctets(RootName), QuestionOctets(NameA), QuestionOctets(Pointer12),
      ResourceOctets(RootName, <<>>), ResourceOctets(Pointer17, <<7>>) }

RECURSIVE Flatten(_)
Flatten(ss) == IF ss = <<>> THEN <<>> ELSE Head(ss) \o Flatten(Tail(ss))

\* the entries of a body: up to MaxEntries of them
EntrySeqs == UNION {[1..k -> BodyEntries] : k \in 0..MaxEntries}

\* the counts a header declares: up to MaxCount items per section
Counts == {d \in [Sections -> 0..MaxCount] : d[1] + d[2] + d[3] + d[4] <= MaxEntries}

\* a datagram: the header of a query with the counts, and the entries,
\* whole or with the last `cut` octets missing
PacketOctets(c, ss, cut) ==
    LET body == Flatten(ss) IN
    <<4, 210, 1, 0, 0, c[1], 0, c[2], 0, c[3], 0, c[4]>>
        \o SubSeq(body, 1, IF Len(body) >= cut THEN Len(body) - cut ELSE 0)

\* ------------------------------------------------------------------ actions
\* no packet is being read
NoPacket == [pc |-> "idle"]

PacketIdle == pk = NoPacket

\* a datagram, and whether the build checks arithmetic overflow
PacketInit ==
    \E ss \in EntrySeqs, c \in Counts, cut \in 0..1, checks \in BOOLEAN :
        pk = [pc |-> "input", bytes |-> PacketOctets(c, ss, cut), checks |-> checks]

\* the state behind Packet::parse
Parsed(p, r) ==
    [pc |-> IF r.res.kind = "Ok" THEN "parsed" ELSE "failed",
     bytes |-> p.bytes, checks |-> p.checks,
     res |-> r.res, first |-> r.first, items |-> r.items]

\* Packet::parse(bytes, 0)
ParsePacket ==
    /\ pk.pc = "input"
    /\ pk' = Parsed(pk, PacketParse(pk.bytes, 0, pk.checks))
    /\ UNCHANGED notPacketVars

\* packet.questions(), .answers(), .authority() or .additional()
OpenIter(sec) ==
    /\ pk.pc = "parsed"
    /\ pk' = [pc |-> "iterating", bytes |-> pk.bytes, checks |-> pk.checks,
              res |-> pk.res, first |-> pk.first, items |-> pk.items,
              sec |-> sec, it |-> PacketIter(sec, pk.bytes, pk.first), yielded |-> <<>>]
    /\ UNCHANGED notPacketVars

\* the state behind a next() that had an item to yield
Yielded(p, r) ==
    IF r.kind # "Ok" THEN [p EXCEPT !.pc = "iter_panic"]
    ELSE [p EXCEPT !.it = r.it, !.yielded = Append(@, p.it.item.v)]

\* one call of next() on the iterator
IterNext ==
    /\ pk.pc = "iterating"
    /\ pk' = IF ~pk.it.item.some THEN [pk EXCEPT !.pc = "exhausted"]
             ELSE Yielded(pk, IterAdvance(pk.sec, pk.bytes, pk.it, pk.checks))
    /\ UNCHANGED notPacketVars

PacketNext ==
    \/ ParsePacket
    \/ \E sec \in Sections : OpenIter(sec)
    \/ IterNext

\* ==================================================================
\* Part VIII, the UDP request pipeline: the listener, its bounded work
\* channel and the dispatch worker, with the listener's respawn of a
\* terminated worker.
\* ==================================================================

\* the datagrams the listener receives are numbered 1..MaxReceived
MaxReceived == 4
\* the work channel holds up to MaxQueue messages
MaxQueue == 2
\* the worker terminates at most MaxPanics times
MaxPanics == 2

\* the number of times d occurs in the sequence s
Count(s, d) == Cardinality({i \in 1..Len(s) : s[i] = d})

NoPipe == [pc |-> "idle", received |-> 0, pending |-> 0, queue |-> <<>>, worker |-> "none",
           accepted |-> <<>>, handled |-> <<>>, resent |-> {}, dropped |-> {}, panics |-> 0]

\* no pipeline yet
PipeIdle == pipe = NoPipe

\* the listener task with its work channel and the first worker
PipeInit == pipe = [NoPipe EXCEPT !.pc = "recv", !.worker = "live"]

\* the listener: recv_from returned a datagram; its UDPState is the pending
\* message
ListenerReceive ==
    /\ pipe.pc = "recv"
    /\ pipe.received < MaxReceived
    /\ pipe' = [pipe EXCEPT !.pc = "send", !.received = @ + 1, !.pending = pipe.received + 1]
    /\ UNCHANGED notPipeVars

\* the listener: the send into the work channel; with the channel full the
\* listener waits for room, with a worker alive the channel takes the message
ListenerSend ==
    /\ pipe.pc = "send"
    /\ pipe.worker = "live"
    /\ Len(pipe.queue) < MaxQueue
    /\ pipe' = [pipe EXCEPT !.pc = "recv", !.pending = 0,
                            !.queue = Append(@, pipe.pending),
                            !.accepted = Append(@, pipe.pending)]
    /\ UNCHANGED notPipeVars

\* a listener that respawns the worker and forgets the pending message
ListenerRespawnDropsPending ==
    /\ pipe.pc = "send"
    /\ pipe.worker = "dead"
    /\ pipe' = [pipe EXCEPT !.pc = "recv", !.pending = 0, !.worker = "live", !.queue = <<>>]
    /\ UNCHANGED notPipeVars

\* the listener: the send failed because the worker has terminated; a fresh
\* channel, a new worker from the respawn function, and the pending message
\* sent again
ListenerRespawn ==
    /\ pipe.pc = "send"
    /\ pipe.worker = "dead"
    /\ pipe' = [pipe EXCEPT !.pc = "recv", !.pending = 0, !.worker = "live",
                            !.queue = <<pipe.pending>>,
                            !.accepted = Append(@, pipe.pending),
                            !.resent = @ \cup {pipe.pending}]
    /\ UNCHANGED notPipeVars

\* the dispatch worker: it receives a message of the work channel
WorkerReceive ==
    /\ pipe.worker = "live"
    /\ pipe.queue # <<>>
    /\ pipe' = [pipe EXCEPT !.queue = Tail(@), !.handled = Append(@, Head(pipe.queue))]
    /\ UNCHANGED notPipeVars

\* the dispatch worker terminates (a panic): its end of the work channel is
\* dropped, and the messages in the channel with it
WorkerPanic ==
    /\ pipe.worker = "live"
    /\ pipe.panics < MaxPanics
    /\ pipe' = [pipe EXCEPT !.worker = "dead", !.queue = <<>>, !.panics = @ + 1,
                            !.dropped = @ \cup {pipe.queue[i] : i \in 1..Len(pipe.queue)}]
    /\ UNCHANGED notPipeVars

PipeNext ==
    \/ ListenerReceive
    \/ ListenerSend
    \/ ListenerRespawn
    \/ WorkerReceive
    \/ WorkerPanic

InitPipe == CacheInit /\ ParseIdle /\ HeaderIdle /\ BuildIdle /\ BufferIdle /\ ServerIdle /\ PacketIdle /\ PipeInit

\* the pipeline: a listener and a worker that may terminate
SpecPipe == InitPipe /\ [][PipeNext]_vars

InitPacket == CacheInit /\ ParseIdle /\ HeaderIdle /\ BuildIdle /\ BufferIdle /\ ServerIdle /\ PipeIdle /\ PacketInit

\* Packet::parse on one datagram, then one of the packet's iterators
SpecPacket == InitPacket /\ [][PacketNext]_vars

InitBuffer == CacheInit /\ ParseIdle /\ HeaderIdle /\ BuildIdle /\ BufferIdle /\ ServerIdle /\ PacketIdle /\ PipeIdle

\* one ArrayBuffer from its construction on
SpecBuffer == InitBuffer /\ [][BufferNext]_vars

InitServer == CacheInit /\ ParseIdle /\ HeaderIdle /\ BuildIdle /\ BufferIdle /\ ServerIdle /\ PacketIdle /\ PipeIdle

\* main from bind on
SpecServer == InitServer /\ [][ServerNext]_vars

InitHeader == CacheInit /\ ParseIdle /\ HeaderInit /\ BuildIdle /\ BufferIdle /\ ServerIdle /\ PacketIdle /\ PipeIdle

\* the header codec applied to one Header or to one 12-octet buffer
SpecHeader == InitHeader /\ [][HeaderNext]_vars

InitBuild == CacheInit /\ ParseIdle /\ HeaderIdle /\ BuildIdle /\ BufferIdle /\ ServerIdle /\ PacketIdle /\ PipeIdle

\* the packet builder from respond() to build_into()
SpecBuild == InitBuild /\ [][BuildNext]_vars

InitParse == CacheInit /\ ParseInit /\ HeaderIdle /\ BuildIdle /\ BufferIdle /\ ServerIdle /\ PacketIdle /\ PipeIdle

\* the codec applied to one buffer
SpecParse == InitParse /\ [][ParseNext]_vars

Init == CacheInit /\ ParseIdle /\ HeaderIdle /\ BuildIdle /\ BufferIdle /\ ServerIdle /\ PacketIdle /\ PipeIdle

Next == ClientNext \/ WriterNext

\* the cache with an operator that runs until its channel closes
Spec == Init /\ [][Next]_vars

\* the cache with an operator task that may also be stopped from outside
NextAbort == Next \/ WriterAbort

SpecAbort == Init /\ [][NextAbort]_vars

\* the operator task is scheduled for as long as it can take a step
SpecLive == Spec /\ WF_vars(WriterNext)

\* ------------------------------------------------------------------ history
\* What the processed commands say, read off the log alone.
InsertIdx == {i \in 1..Len(log) : log[i].op = "Insert"}

LastPublish ==
    LET P == {i \in 1..Len(log) : log[i].op = "Publish"}
    IN  IF P = {} THEN 0 ELSE CHOOSE i \in P : \A j \in P : j <= i

PublishInProgress == wpc \in {"refresh_name", "refresh_typed"}

\* records whose Insert was processed and no Publish has been taken up since
PendingRecs ==
    IF PublishInProgress THEN {}
    ELSE {log[i].rec : i \in {j \in InsertIdx : j > LastPublish}}

\* records whose Insert was followed by a fully processed Publish
PublishedEver == {log[i].rec : i \in {j \in InsertIdx : j < LastPublish}}

\* of those, the ones no later published Insert of the same cache key replaced
PublishedNow ==
    {log[i].rec : i \in {j \in InsertIdx :
        /\ j < LastPublish
        /\ \A k \in InsertIdx :
              (k < LastPublish /\ CacheKey(log[k].rec) = CacheKey(log[j].rec)) => k <= j}}

\* the records pipeline c has sent
ChainRecs(c) ==
    {log[i].rec : i \in {j \in InsertIdx : log[j].chain = c}}
        \cup {chan[i].rec : i \in {j \in 1..Len(chan) : chan[j].op = "Insert" /\ chan[j].chain = c}}

\* pipeline c's records have cache keys of their own
OwnRecords(c) ==
    /\ \A a, b \in ChainRecs(c) : CacheKey(a) = CacheKey(b) => a = b
    /\ \A d \in Chains \ {c} : \A a \in ChainRecs(c), b \in ChainRecs(d) :
          CacheKey(a) # CacheKey(b)

\* get(key) returns the resource data of record r
Returns(key, r) == Get(key).some /\ BagIn(ResourceData(r), Get(key).v)

ByName(r) == GetKey(r.name, None)
ByNameAndType(r) == GetKey(r.name, Some(r.typ))

Quiet == wpc = "recv"

\* ------------------------------------------------------------------ C1
\* C1 as stated: a record sent with Insert is returned by no get() until the
\* writer takes up a later Publish, and once that Publish has been processed
\* every later get() by its name and by its (name, type) returns it.
C1_Original ==
    handles > 0 =>
        /\ \A r \in PendingRecs : \A key \in GetKeys : ~Returns(key, r)
        /\ Quiet => \A r \in PublishedEver :
                        Returns(ByName(r), r) /\ Returns(ByNameAndType(r), r)

\* C1 amended: a record sent with Insert that is not already the published
\* record of its (name, type, rdata) is returned by no get() until the writer
\* takes up a later Publish; once that Publish has been processed, get() by its
\* name and by its (name, type) returns it for as long as no later published
\* Insert of the same (name, type, rdata) has replaced it.
C1_InsertVisibleOnlyAfterPublish ==
    handles > 0 =>
        /\ \A r \in PendingRecs \ PublishedNow : \A key \in GetKeys : ~Returns(key, r)
        /\ Quiet => \A r \in PublishedNow :
                        Returns(ByName(r), r) /\ Returns(ByNameAndType(r), r)

\* a published record is returned while another, inserted later, is not
C1_Witness ==
    /\ handles > 0
    /\ Quiet
    /\ PublishedNow # {}
    /\ PendingRecs \ PublishedNow # {}
    /\ \E r \in PublishedEver : r \notin PublishedNow

\* ------------------------------------------------------------------ C2
\* the two lookups a reader has for a record
LookupsOf(r) == {ByName(r), ByNameAndType(r)}

\* pipeline c's Publish is the command the writer is handling, or the one it
\* handled last
PublishOf(c) ==
    \/ PublishInProgress /\ Head(chan).chain = c
    \/ Quiet /\ log # <<>> /\ log[Len(log)].op = "Publish" /\ log[Len(log)].chain = c

\* C2 (P7) as stated: for two records a, b that one pipeline inserted and then
\* published (no other insert shares a cache key with them), a reader sees
\* both once publish() has completed, and a reader that runs while the writer
\* handles that Publish sees both or neither, whichever of get(name) and
\* get((name, type)) it uses for each of them.
C2_Original ==
    \A c \in Chains : \A a, b \in ChainRecs(c) :
        (handles > 0 /\ PublishOf(c) /\ OwnRecords(c) /\ a # b) =>
            /\ \A ka \in LookupsOf(a), kb \in LookupsOf(b) :
                  Returns(ka, a) <=> Returns(kb, b)
            /\ Quiet => Returns(ByName(a), a) /\ Returns(ByName(b), b)

\* ------------------------------------------------------------------ C3
\* the records of pipeline c that a reader sees
VisibleOf(c) == {r \in ChainRecs(c) : \E key \in LookupsOf(r) : Returns(key, r)}

\* C3 as stated: between Publishes a reader sees none or all of the records a
\* pipeline has inserted, also when pipelines interleave on the channel.
C3_Original ==
    \A c \in Chains :
        (handles > 0 /\ Quiet /\ OwnRecords(c)) =>
            VisibleOf(c) = {} \/ VisibleOf(c) = ChainRecs(c)

\* ------------------------------------------------------------------ C4
\* C4 (P8) as stated: a read returns each resource once, also when the same
\* (name, type, rdata) was inserted twice before the Publish.
C4_Original ==
    (handles > 0 /\ Quiet) =>
        \A key \in GetKeys :
            Get(key).some => \A v \in BagToSet(Get(key).v) : CopiesIn(v, Get(key).v) = 1

\* ------------------------------------------------------------------ C5
\* the resource data a get() result holds
Elements(res) == IF res.some THEN BagToSet(res.v) ELSE {}

AllProcessed == Quiet /\ chan = <<>>

\* C5: once every command sent has been processed, get((name, Some(type)))
\* holds exactly the published resource data of that name and type, and
\* get((name, None)), which is also where QType::ALL leads, exactly the
\* published resource data of that name.
C5_GetReturnsPublishedOfNameAndType ==
    (handles > 0 /\ AllProcessed) =>
        \A n \in Names : \A q \in Types \cup {QTypeALL} :
            Elements(Get(GetKey(n, into_type(q))))
                = {ResourceData(r) : r \in {x \in PublishedNow :
                        x.name = n /\ (q = QTypeALL \/ x.typ = q)}}

\* records of two names are published, another insert is still pending
C5_Witness ==
    /\ handles > 0
    /\ AllProcessed
    /\ {r.name : r \in PublishedNow} = Names
    /\ PendingRecs \ PublishedNow # {}
    /\ Elements(Get(GetKey("a", None))) # {}
    /\ Elements(Get(GetKey("a", Some(TypeTXT)))) = {}

\* ------------------------------------------------------------------ C6
\* an insert() or publish() call is made in this step
BulkCall == lastCall'.n = lastCall.n + 1

\* C6: once the operator task has exited, insert() and publish() on a pipeline
\* do not block, return CacheOperatorGone, and leave every get() as it was.
C6_CallAfterWriterExitFails ==
    /\ [](\A c \in Chains : (~ReceiverAlive /\ chainSt[c] = "open" /\ lastCall.n < MaxCalls) =>
            /\ ENABLED BulkPublish(c)
            /\ \A r \in Records : ENABLED BulkInsert(c, r))
    /\ [][(BulkCall /\ ~ReceiverAlive) =>
            /\ lastCall'.res = "CacheOperatorGone"
            /\ \A key \in GetKeys : Get(key)' = Get(key)
            /\ chan' = chan]_vars

\* a call has failed on a pipeline that had sent commands before
C6_Witness ==
    /\ wpc = "gone"
    /\ lastCall.res = "CacheOperatorGone"
    /\ lastCall.n > 1

\* ------------------------------------------------------------------ C7
NoSenderLeft == handles = 0 /\ \A c \in Chains : chainSt[c] # "open"

\* C7 as stated: once every EVCache handle is dropped and the queue is
\* drained, recv() returns None and the listen loop returns.
C7_Original == (handles = 0 /\ Quiet /\ chan = <<>>) => ENABLED WriterExit

\* C7 amended: once every EVCache handle and every bulk pipeline (each holds a
\* Sender of the channel) has been dropped, the writer eventually returns from
\* listen, and it returns only after it has processed every command sent.
C7_WriterReturnsWhenChannelCloses ==
    /\ NoSenderLeft ~> (wpc = "done")
    /\ [](wpc = "done" => (NoSenderLeft /\ Len(log) = lastCall.n))

\* the loop has returned after processing commands
C7_Witness == wpc = "done" /\ LastPublish > 1 /\ Len(log) > LastPublish

\* ------------------------------------------------------------------ C8
\* C8 (as stated): no parser of the codec panics, whatever the buffer: every
\* run ends in Ok or in a structured error.
C8_Original == pres.kind # "Panic"

\* ------------------------------------------------------------------ C9
\* C9 (as stated): a name whose pointers form a cycle is rejected: when the
\* walk stands on a pointer to a target it has already followed, its next
\* step ends the parse with an error.
AtFollowedPointer ==
    /\ ppc = "walk"
    /\ itYielded
    /\ itLabel.lkind = "Pointer"
    /\ itLabel.offset \in followed

C9_Original == [][AtFollowedPointer => (ppc' = "done" /\ pres'.kind = "Err")]_vars

\* ------------------------------------------------------------------ C10
\* C10 (as stated): a label parser returns a pointer only if the pointer's
\* target lies strictly before the offset the pointer itself stands at.
C10_Original ==
    (ppc = "done" /\ parser \in {"Label::parse", "Label::try_parse"} /\ pres.lkind = "Pointer")
        => pres.offset < off

\* ------------------------------------------------------------------ C11
\* the length of the name at an offset with its pointers followed: label
\* octets plus length octets, the closing zero included
RECURSIVE ExpandedLen(_, _, _)
ExpandedLen(bytes, offset, fuel) ==
    IF fuel = 0 THEN MAX_NAME_SIZE + 1
    ELSE LET l == LabelParse(bytes, offset) IN
      IF l.kind = "Err" THEN 0
      ELSE IF l.lkind = "None" THEN 1
      ELSE IF l.lkind = "Pointer" THEN ExpandedLen(bytes, l.offset, fuel - 1)
      ELSE 1 + l.len + ExpandedLen(bytes, offset + 1 + l.len, fuel - 1)

NameParsers == {"DomainName::parse", "Question::try_parse", "DomainName::try_from"}

\* C11 (P6, as stated): a name parser rejects every name whose expanded
\* length exceeds 255 octets.
C11_Original ==
    (ppc = "done" /\ parser \in NameParsers /\ ExpandedLen(buf, off, Len(buf) + 1) > MAX_NAME_SIZE)
        => pres.kind # "Ok"

\* ------------------------------------------------------------------ C12
LegalLabelLen(n) == n \in 1..MAX_LABEL_LENGTH

\* the name at an offset is made of legal labels only and has no pointer
RECURSIVE WellFormedName(_, _, _)
WellFormedName(bytes, offset, fuel) ==
    LET l == LabelParse(bytes, offset) IN
    /\ fuel > 0
    /\ l.kind = "Ok"
    /\ l.lkind # "Pointer"
    /\ l.lkind = "Data" => WellFormedName(bytes, offset + 1 + l.len, fuel - 1)

\* a well-formed name of at most 255 octets at the offset, and a known
\* QTYPE and QCLASS behind it
LegalQuestion ==
    LET e == off + ExpandedLen(buf, off, Len(buf) + 1) IN
    /\ WellFormedName(buf, off, Len(buf) + 1)
    /\ e - off <= MAX_NAME_SIZE
    /\ e + 4 <= Len(buf)
    /\ QTypeKnown(U16(At(buf, e), At(buf, e + 1)))
    /\ QClassKnown(U16(At(buf, e + 2), At(buf, e + 3)))

\* the lengths of the pieces the '.' octets cut a text into
PieceLens(b) ==
    LET dots == {i \in 0..(Len(b) - 1) : At(b, i) = 46}
        ends == dots \cup {Len(b)}
    IN  {(CHOOSE e \in ends : e >= p /\ \A f \in ends : f >= p => e <= f) - p :
            p \in {0} \cup {d + 1 : d \in dots}}

\* a text of letters cut by '.' into labels of legal length
LegalText(b) ==
    /\ Len(b) <= MAX_NAME_SIZE
    /\ \A i \in 1..Len(b) : b[i] \in {46, 97}
    /\ \A n \in PieceLens(b) : LegalLabelLen(n)

\* the wire parsers accept every name of legal labels, the one with a label
\* of 63 octets included
WireAcceptsLegalLabels ==
    /\ (parser = "Question::try_parse" /\ LegalQuestion) => pres.kind = "Ok"
    /\ (parser = "DomainName::try_from" /\ LegalQuestion) => pres.kind = "Ok"
    /\ (parser = "DomainName::parse" /\ LegalQuestion) => pres.kind = "Ok"

\* the wire label parsers return no label of an illegal length
WireRejectsIllegalLabels ==
    /\ (parser = "Label::parse" /\ pres.lkind = "Data") => LegalLabelLen(pres.len)
    /\ (parser = "Label::try_parse" /\ pres.lkind = "Label") => LegalLabelLen(pres.len - 1)

\* the constructors accept every legal label and name
TextAcceptsLegalLabels ==
    /\ (parser = "Label::from_str" /\ LegalText(buf) /\ 46 \notin {buf[i] : i \in 1..Len(buf)})
            => (pres.lkind = "Label" /\ pres.len = Len(buf))
    /\ (parser = "DomainName::from_str" /\ LegalText(buf)) => pres.kind = "Ok"

\* no empty and no over-long label enters what the constructors build
TextRejectsIllegalLabels ==
    /\ (parser = "Label::from_str" /\ pres.lkind = "Label") => LegalLabelLen(pres.len)
    /\ (parser = "DomainName::from_str" /\ pres.kind = "Ok")
            => \A i \in 1..Len(owned) : LegalLabelLen(owned[i])

\* C12 (as stated): every label parser and name constructor accepts labels
\* of each length 1..=63 and lets no label of length 0 or of 64 and more into
\* a name.
C12_Original ==
    ppc = "done" =>
        /\ WireAcceptsLegalLabels
        /\ WireRejectsIllegalLabels
        /\ TextAcceptsLegalLabels
        /\ TextRejectsIllegalLabels

\* ------------------------------------------------------------------ C13
\* C13 (P4, as stated): a Header of legal fields that is written with
\* write_into and parsed back from the 12 octets is parsed successfully, and
\* every field of the parsed Header is the one written.
C13_Original == hpc = "read" => (hres.kind = "Ok" /\ hdr = header0)

\* ------------------------------------------------------------------ C14
\* C14 (as stated): 12 octets that Header::try_from accepts are the 12 octets
\* write_into writes for the Header parsed from them.
C14_Original == hpc = "rewritten" => octets = octets0

\* the strict parsers of a 12-octet header
StrictParsers == {"Header::try_from", "GenericHeaderView::new", "DNSHeaderView_::new"}

\* the Z field, bits 4..6 of the second flags octet
ZBits(value) == (At(value, 3) \div 16) % 8

\* the Opcode field, bits 3..6 of the first flags octet, and the RCODE field,
\* bits 0..3 of the second one
OpcodeBits(value) == (At(value, 2) \div 8) % 16
RcodeBits(value) == At(value, 3) % 16

\* C15: a strict parser rejects every header with one of the three Z bits set,
\* and rejects no header with Z = 0, an Opcode of 0..2 and an RCODE of 0..5 as
\* using reserved bits
C15_Original ==
    (hparser \in StrictParsers /\ hpc \in {"parsed", "rejected", "viewed"}) =>
        /\ ZBits(octets0) # 0 => hres.kind = "Err"
        /\ (ZBits(octets0) = 0 /\ OpcodeBits(octets0) <= 2 /\ RcodeBits(octets0) <= 5) =>
               ~(hres.kind = "Err" /\ hres.err \in {"UseOfReservedBits", "ReservedBitsInUse"})

\* ------------------------------------------------------------------ C16
\* the labels of the name at offset, pointers followed (a pointer is two
\* octets with the top bits 11 and a 14-bit offset into the message; one
\* visited twice is a cycle)
RECURSIVE ReadLabels(_, _, _)
ReadLabels(bytes, offset, visited) ==
    IF offset >= Len(bytes) THEN [ok |-> FALSE, labels |-> <<>>]
    ELSE LET len == At(bytes, offset) IN
         IF len = 0 THEN [ok |-> TRUE, labels |-> <<>>]
         ELSE IF len >= 192 THEN
              IF offset + 1 >= Len(bytes) \/ offset \in visited THEN [ok |-> FALSE, labels |-> <<>>]
              ELSE ReadLabels(bytes, U16(len % 64, At(bytes, offset + 1)), visited \cup {offset})
         ELSE IF len >= 64 \/ offset + 1 + len > Len(bytes) THEN [ok |-> FALSE, labels |-> <<>>]
         ELSE LET rest == ReadLabels(bytes, offset + 1 + len, visited) IN
              [ok |-> rest.ok, labels |-> <<Slice(bytes, offset + 1, offset + 1 + len)>> \o rest.labels]

\* the offset behind the name at offset: behind its end octet or its pointer
RECURSIVE NameEnd(_, _)
NameEnd(bytes, offset) ==
    IF offset >= Len(bytes) THEN offset
    ELSE LET len == At(bytes, offset) IN
         IF len = 0 THEN offset + 1
         ELSE IF len >= 64 THEN offset + 2
         ELSE NameEnd(bytes, offset + 1 + len)

\* the names of nq questions and na answers read from offset on, in order
RECURSIVE ReadNames(_, _, _, _)
ReadNames(bytes, offset, nq, na) ==
    IF nq = 0 /\ na = 0 THEN <<>>
    ELSE LET name == ReadLabels(bytes, offset, {})
             end == NameEnd(bytes, offset)
         IN  IF nq > 0 THEN <<name>> \o ReadNames(bytes, end + 4, nq - 1, na)
             ELSE <<name>> \o ReadNames(bytes, end + 10 + U16(At(bytes, end + 8), At(bytes, end + 9)), nq, na - 1)

\* the names of a message, counted by its header
MessageNames(bytes) ==
    ReadNames(bytes, HeaderSize, U16(At(bytes, 4), At(bytes, 5)), U16(At(bytes, 6), At(bytes, 7)))

SameNames(ns, ms) ==
    /\ Len(ns) = Len(ms)
    /\ \A i \in 1..Len(ns) : ns[i].ok /\ ms[i].ok /\ NameEq(ns[i].labels, ms[i].labels)

\* the same builder with compression disabled, built into the same slice
BuiltPlain == BuildInto([builder EXCEPT !.compress = FALSE], out_len)

\* C16: the names parsed from a message built with compression are, in order,
\* the names parsed from the same message built without compression
C16_Original ==
    (bpc = "built" /\ builder.compress /\ built.kind = "Ok" /\ BuiltPlain.kind = "Ok") =>
        SameNames(MessageNames(built.out), MessageNames(BuiltPlain.out))

\* without compression the names read are the names handed to the builder
C16_PlainReadsBack ==
    (bpc = "built" /\ ~builder.compress /\ built.kind = "Ok") =>
        SameNames(MessageNames(built.out),
                  [i \in 1..(Len(builder.questions) + Len(builder.answers)) |->
                      [ok |-> TRUE,
                       labels |-> IF i <= Len(builder.questions) THEN builder.questions[i].name
                                  ELSE builder.answers[i - Len(builder.questions)].name]])

\* ------------------------------------------------------------------ C17
\* the message the builder would write into a slice with room for all of it
BuiltWhole == BuildInto(builder, HeaderSize + MaxRecords * MAX_MESSAGE_SIZE)

\* the TC bit, bit 1 of the octet at offset 2
TCBit(bytes) == (At(bytes, 2) \div 2) % 2

\* C17: a response that would exceed 512 octets is still emitted, with TC = 1
\* and a length of at most 512, and its QDCOUNT and ANCOUNT are the numbers
\* of records serialized
C17_Original ==
    (bpc = "built" /\ out_len = MAX_MESSAGE_SIZE /\ Len(BuiltWhole.out) > MAX_MESSAGE_SIZE) =>
        /\ built.kind = "Ok"
        /\ TCBit(built.out) = 1
        /\ Len(built.out) <= MAX_MESSAGE_SIZE
        /\ U16(At(built.out, 4), At(built.out, 5)) = Len(built.questions)
        /\ U16(At(built.out, 6), At(built.out, 7)) = Len(built.answers)

\* ------------------------------------------------------------------ C18
\* C18: a successful build writes a header whose QDCOUNT is the number of
\* questions serialized and whose ANCOUNT is the number of answers serialized,
\* with NSCOUNT = ARCOUNT = 0
C18_CountsMatchSerialized ==
    (bpc = "built" /\ built.kind = "Ok") =>
        /\ U16(At(built.out, 4), At(built.out, 5)) = Len(built.questions)
        /\ U16(At(built.out, 6), At(built.out, 7)) = Len(built.answers)
        /\ U16(At(built.out, 8), At(built.out, 9)) = 0
        /\ U16(At(built.out, 10), At(built.out, 11)) = 0

\* a successful build of two questions and an answer
C18_Witness ==
    /\ bpc = "built"
    /\ built.kind = "Ok"
    /\ Len(built.questions) = 2
    /\ Len(built.answers) = 1

\* ------------------------------------------------------------------ C19
\* C19: remaining_mut() is max_len - len, and committing n <= remaining_mut()
\* octets with advance_mut or a put returns and increases len by exactly n,
\* n = remaining_mut() included
C19_Original ==
    /\ apc = "live" => remaining_mut(abuf) = abuf.max_len - abuf.len
    /\ (aop.op \in {"advance_mut", "put_slice"} /\ aop.n <= remaining_mut(aop.before)) =>
           /\ aop.ok
           /\ abuf.len = aop.before.len + aop.n

\* ------------------------------------------------------------------ C20
\* the RCODE of a message, bits 0..3 of the octet at offset 3
Rcode(bytes) == At(bytes, 3) % 16

\* the datagram of the last turn is not a message main can parse
ParseFails == PacketTryParse(sdatagram).kind # "Ok"

\* C20: every datagram that fails to parse, one of fewer than 12 octets
\* included, is answered with RCODE = 1 and the server keeps serving
C20_Original ==
    (sevent \notin {"none", "recv_error", "send_failed"} /\ ParseFails) =>
        /\ spc = "serving"
        /\ Len(sreply) >= HeaderSize
        /\ Rcode(sreply) = FormatError

\* ------------------------------------------------------------------ C21
\* C21: a recv_from error that does not follow another one is answered with
\* a rebind, after which the listener keeps receiving: the first failure
\* never stops the listener
C21_Original ==
    [][(spc = "serving" /\ sevent # "recv_error" /\ sevent' = "recv_error")
          => spc' = "serving"]_vars

\* ------------------------------------------------------------------ C22
\* the datagram of the last turn went through try_parse without a panic
ParseReturns == PacketTryParse(sdatagram).kind # "Panic"

\* C22: a send_to that fails ends no server, on the format-error path and
\* on the normal path: a turn whose parse returned leaves the loop running
C22_Original == (sevent \notin {"none", "recv_error"} /\ ParseReturns) => spc = "serving"

\* ------------------------------------------------------------------ C24
\* the header of the module documentation of proto/header.rs
DocHeader == <<4, 210, 16, 0, 0, 1, 0, 0, 0, 0, 0, 0>>

\* PacketType and Opcode as the two views decode them from the octet at
\* offset 2: bit 7, and bits 3..6
PacketTypeOf(b2) == IF b2 \div 128 = 1 THEN "Response" ELSE "Query"

OpcodeName(code) ==
    IF code = 0 THEN "Query" ELSE IF code = 1 THEN "InverseQuery" ELSE "Status"

\* ResponseCode of bits 0..3 of the octet at offset 3
ResponseCodeOf(b3) == b3 % 16

\* GenericHeaderView<Invalid>: what the accessors of the unvalidated view
\* return for a 12-octet buffer (Some(..) resp. Ok(Some(..)) of these values,
\* "Err" where the accessor returns Err)
InvalidViewFields(buffer) ==
    [ id |-> U16(At(buffer, 0), At(buffer, 1)),
      packet_type |-> PacketTypeOf(At(buffer, 2)),
      opcode |-> IF (At(buffer, 2) \div 8) % 16 > 2 THEN "Err"
                 ELSE OpcodeName((At(buffer, 2) \div 8) % 16),
      authoritive_answer |-> (At(buffer, 2) \div 4) % 2 = 1,
      truncated |-> (At(buffer, 2) \div 2) % 2 = 1,
      recursion_desired |-> At(buffer, 2) % 2 = 1,
      recursion_available |-> At(buffer, 3) \div 16 = 15,
      response_code |-> IF At(buffer, 3) % 16 > 5 THEN "Err"
                        ELSE ResponseCodeOf(At(buffer, 3)),
      question_entries |-> U16(At(buffer, 4), At(buffer, 5)),
      answer_entries |-> U16(At(buffer, 6), At(buffer, 7)),
      authority_entries |-> U16(At(buffer, 8), At(buffer, 9)),
      additional_entries |-> U16(At(buffer, 10), At(buffer, 11)) ]

\* GenericHeaderView<Valid>: what the accessors of the validated view return
\* ("Panic" where the accessor panics)
ValidViewFields(buffer) ==
    [ id |-> U16(At(buffer, 0), At(buffer, 1)),
      packet_type |-> PacketTypeOf(At(buffer, 2)),
      opcode |-> IF (At(buffer, 2) \div 8) % 16 > 2 THEN "Panic"
                 ELSE OpcodeName((At(buffer, 2) \div 8) % 16),
      authoritive_answer |-> (At(buffer, 2) \div 4) % 2 = 1,
      truncated |-> (At(buffer, 2) \div 2) % 2 = 1,
      recursion_desired |-> At(buffer, 2) % 2 = 1,
      recursion_available |-> At(buffer, 3) \div 16 = 15,
      response_code |-> IF At(buffer, 3) % 16 > 5 THEN "Panic"
                        ELSE ResponseCodeOf(At(buffer, 3)),
      question_entries |-> U16(At(buffer, 4), At(buffer, 5)),
      answer_entries |-> U16(At(buffer, 6), At(buffer, 7)),
      authority_entries |-> U16(At(buffer, 8), At(buffer, 9)),
      additional_entries |-> U16(At(buffer, 10), At(buffer, 11)) ]

\* GenericHeaderView::new_validated accepted the octets
ViewAccepted ==
    /\ hpc = "viewed"
    /\ hparser = "GenericHeaderView::new"
    /\ hres.kind = "Ok"

\* the two views agree on every field of the accepted header
C24_ViewsAgree == ViewAccepted => InvalidViewFields(octets) = ValidViewFields(octets)

\* what the documentation asserts of a view
DocAsserts(view) ==
    /\ view.packet_type = "Response"
    /\ view.opcode = "Query"
    /\ view.question_entries = 1

\* C24: the two views agree on every field of a header that validation
\* accepts, and for the documented header both report packet_type =
\* Response, opcode = Query and question_entries = 1
C24_Original ==
    ViewAccepted =>
        /\ InvalidViewFields(octets) = ValidViewFields(octets)
        /\ octets = DocHeader =>
              /\ DocAsserts(InvalidViewFields(octets))
              /\ DocAsserts(ValidViewFields(octets))

\* ------------------------------------------------------------------ C25
\* Label::parse was applied at a length octet whose top two bits are 01 or 10
AtReservedLength ==
    /\ ppc = "done"
    /\ parser = "Label::parse"
    /\ off < Len(buf)
    /\ At(buf, off) \in 64..191

\* C25: a length octet of 64..191 is rejected by Label::parse with
\* InvalidLengthField, whatever the length of the buffer behind it
C25_Original == AtReservedLength => (pres.kind = "Err" /\ pres.err = "InvalidLengthField")

\* the parser never returns InvalidLengthField
C25_NeverInvalidLengthField == (parser = "Label::parse") => pres.err # "InvalidLengthField"

\* ------------------------------------------------------------------ C26
\* Packet::parse was called and what it did is known
PacketParsed == pk.pc \notin {"idle", "input"}

PacketAccepted == PacketParsed /\ pk.res.kind = "Ok"

\* the items the sweep decoded for one section, in order
ItemsOf(sec) == SelectSeq(pk.items, LAMBDA item : item.sec = sec)

\* the sweep went forward and stayed inside the buffer: it started behind
\* the header, every item starts where the one before it ends, and the last
\* one ends inside the buffer
ForwardSweep ==
    /\ pk.items # <<>> => pk.items[1].offset = HeaderSize
    /\ \A i \in 1..(Len(pk.items) - 1) :
          pk.items[i + 1].offset = pk.items[i].offset + pk.items[i].size
    /\ \A i \in 1..Len(pk.items) : pk.items[i].offset + pk.items[i].size <= Len(pk.bytes)

\* an accepted packet: the sweep decoded exactly the declared counts
C26_AcceptedDecodedAll ==
    PacketAccepted =>
        /\ ForwardSweep
        /\ \A sec \in Sections : Len(ItemsOf(sec)) = Entries(pk.bytes, 0)[sec]

\* the buffer behind the header is shorter than the declared items are at
\* the least (5 octets a question, 11 a resource record)
BufferEndsEarly ==
    LET declared == Entries(pk.bytes, 0) IN
    Len(pk.bytes) - HeaderSize < 5 * declared[1] + 11 * (declared[2] + declared[3] + declared[4])

\* when Packet::parse returns for such a buffer, it returns an error
C26_EarlyEndNotAccepted ==
    (PacketParsed /\ BufferEndsEarly /\ pk.res.kind \in {"Ok", "Err"}) => pk.res.kind = "Err"

\* an iterator of an accepted packet does not panic, and yields the items
\* the sweep decoded for its section
C26_IteratorsYieldDecoded ==
    /\ pk.pc # "iter_panic"
    /\ pk.pc = "exhausted" =>
          pk.yielded = [i \in 1..Len(ItemsOf(pk.sec)) |-> ItemsOf(pk.sec)[i].offset]

\* C26: Packet::parse returns Ok only when one forward sweep inside the
\* buffer decoded exactly the declared numbers of questions, answers,
\* authority and additional records; it returns an error when the buffer
\* ends before a declared count is reached; and the four iterators of an
\* accepted packet yield exactly the declared items, the ones the sweep
\* decoded, without a panic
C26_Original ==
    /\ C26_AcceptedDecodedAll
    /\ (PacketParsed /\ BufferEndsEarly) => pk.res.kind = "Err"
    /\ C26_IteratorsYieldDecoded

\* ------------------------------------------------------------------ C27
\* the buffer was constructed and nothing but put_* was called on it, and
\* every call returned
OnlyPuts == apc = "live" /\ aop.put.some

\* C27: after any sequence of put_* calls, those that made the storage grow
\* included, as_slice() is the concatenation, in order, of the octets put
\* (a put_u16 puts its two octets big-endian)
C27_PutsConcatenate == OnlyPuts => as_slice(abuf) = aop.put.v

\* a put into a buffer that held octets made the storage grow, and the
\* buffer holds more than the old storage could
C27_Witness ==
    /\ OnlyPuts
    /\ aop.op \in {"put_slice", "put_u16"}
    /\ aop.before.len > 0
    /\ abuf.cap > aop.before.cap
    /\ abuf.len > aop.before.cap

\* ------------------------------------------------------------------ C30
\* the cursors of the buffer are in order and inside the storage
CursorsInside(b) ==
    /\ 0 <= b.read_cursor
    /\ b.read_cursor <= b.len
    /\ b.len <= capacity(b)
    /\ b.len <= b.max_len

\* C30: after any sequence of put_*, advance_mut, advance, set_len and clear
\* calls 0 <= read_cursor <= len <= capacity and len <= max_len, and a read
\* advance(cnt) with cnt <= remaining() is accepted
C30_Original ==
    /\ apc = "live" => CursorsInside(abuf)
    /\ (aop.op = "advance" /\ CursorsInside(aop.before) /\ aop.n <= remaining(aop.before)) => aop.ok

\* the write side alone keeps len inside the storage and under max_len
C30_LenInside == apc = "live" => (abuf.len <= capacity(abuf) /\ abuf.len <= abuf.max_len)

\* ------------------------------------------------------------------ C28
\* the cache keys a reader finds under one key of an index
IndexKeys(idx, k) == IF EvGet(idx, k).some THEN BagToSet(EvGet(idx, k).v) ELSE {}

\* every cache key in the readers' side of the index is a key of the
\* readers' side of the record table
Resolves(idx, ks) == \A k \in ks : \A ck \in IndexKeys(idx, k) : EvGetOne(table, ck).some

\* the number of records get() returns, and of cache keys it found
Returned(key) == SumOver(DOMAIN Get(key).v, Get(key).v)
Found(key) ==
    LET keys == IF key.typ.some THEN EvGet(typedIdx, <<key.name, key.typ.v>>)
                ELSE EvGet(nameIdx, key.name)
    IN  SumOver(DOMAIN keys.v, keys.v)

\* C28: at every instant, between the three refreshes of a Publish too,
\* every cache key a reader finds in the by-name or the by-(name, type)
\* index resolves in the record table the reader sees, and get() returns as
\* many records as it found cache keys
C28_IndexKeysResolve ==
    /\ Resolves(nameIdx, Names)
    /\ Resolves(typedIdx, Names \X Types)
    /\ \A key \in GetKeys : Get(key).some => Returned(key) = Found(key)

\* a reader reads the index first and the record table after it: what the
\* table shows a reader is never taken back while a handle is alive
C28_TableOnlyGrows ==
    [][handles' > 0 =>
        \A r \in Records : EvGetOne(table, CacheKey(r)).some
                              => EvGetOne(table', CacheKey(r)).some]_vars

\* between the refreshes of a second Publish: the indexes still show the
\* first publication, the record table already shows the second
C28_Witness ==
    /\ wpc \in {"refresh_name", "refresh_typed"}
    /\ handles > 0
    /\ \E n \in Names : IndexKeys(typedIdx, <<n, TypeA>>) # {}
    /\ \E r \in Records :
          /\ EvGetOne(table, CacheKey(r)).some
          /\ CacheKey(r) \notin IndexKeys(typedIdx, <<r.name, r.typ>>)

\* ------------------------------------------------------------------ C29
\* the entry of written_names reads back: the octets at its offset decode,
\* pointers followed, to its name
EntrySound(bytes, entry) ==
    LET name == ReadLabels(bytes, entry.offset, {})
    IN  name.ok /\ NameEq(name.labels, entry.name)

\* build_into returned: the names of the records that fitted were written
NamesWritten == bpc = "built" /\ built.kind \in {"Ok", "Err"}

\* C29: every (name, offset) entry write_name recorded in written_names is
\* such that the octets of the message at that offset decode to that name,
\* for names written in full and for names that end in a pointer
C29_Original ==
    NamesWritten => \A i \in 1..Len(built.written_names) : EntrySound(built.out, built.written_names[i])

\* the entries recorded while no name was written with a pointer read back
C29_PlainEntriesSound ==
    (NamesWritten /\ ~builder.compress) =>
        \A i \in 1..Len(built.written_names) : EntrySound(built.out, built.written_names[i])

\* ------------------------------------------------------------------ C23
\* the datagrams the listener is done with: received and no longer pending
Dispatched == {d \in 1..pipe.received : d # pipe.pending}

\* the datagram is in the work channel or was received by a worker
Kept(d) == Count(pipe.queue, d) + Count(pipe.handled, d) = 1

\* C23: with the respawn of a terminated worker nothing is lost: every
\* datagram the listener received and sent on is in the work channel of the
\* live worker or was received by a worker, exactly once
C23_Original ==
    pipe.pc # "idle" => \A d \in Dispatched : Kept(d)

\* C23 as amended: the pending message is sent again: every datagram the
\* listener received and sent on was taken by the work channel of a live
\* worker exactly once, the one whose send failed by the fresh channel; it
\* is in the channel, or a worker received it, or it was dropped with the
\* channel of a worker that terminated, and a worker receives it at most
\* once
C23_PendingResent ==
    pipe.pc # "idle" =>
        /\ \A d \in Dispatched :
              /\ Count(pipe.accepted, d) = 1
              /\ Count(pipe.queue, d) + Count(pipe.handled, d)
                    + (IF d \in pipe.dropped THEN 1 ELSE 0) = 1
        /\ \A d \in 1..MaxReceived \ Dispatched : Count(pipe.accepted, d) = 0

\* a send failed, the worker was respawned, and the new worker received the
\* message that was pending
C23_Witness ==
    /\ pipe.pc # "idle"
    /\ \E d \in pipe.resent : Count(pipe.handled, d) = 1 /\ Count(pipe.accepted, d) = 1

====
